---- MODULE Spec2Model ----
(***************************************************************************)
(* A model of cprex's relation-extraction core:                            *)
(*   - the instance pair generator  (src/cprex/rel/rel_model.py)           *)
(*   - the relation assembler       (src/cprex/corpus/tuples.py)           *)
(*                                                                         *)
(*   - the instance tensor builder  (src/cprex/rel/rel_model.py)           *)
(*   - the compound linker          (src/cprex/pubchem/linker.py)          *)
(*   - the quantities NER component (src/cprex/ner/quantities.py)          *)
(*   - the paper runs and doc filter (src/cprex/corpus/corpus.py)          *)
(*   - the pipeline construction    (src/cprex/pipeline.py)                *)
(*   - the paging crawler           (src/cprex/crawler/chemrxiv.py)        *)
(*   - the relation renderer        (src/cprex/displacy/render.py)         *)
(*                                                                         *)
(* A spaCy Doc is modelled by its entity spans.  For the generator and the *)
(* assembler every entity covers one token, so a span is the record        *)
(* [start, label, ent_id]; for the tensor builder spans cover several      *)
(* tokens and carry their end as well.  doc.ents is the sequence of the    *)
(* spans in increasing start order (spaCy keeps doc.ents sorted and        *)
(* non-overlapping).  Probabilities are hundredths (0.45 is 45).  Tensor   *)
(* entries are exact fractions <<numerator, denominator>>.  Compound names *)
(* are sequences of character codes, so that str.lower() is computed.      *)
(***************************************************************************)
EXTENDS Integers, Sequences, FiniteSets, TLC

VARIABLES
    pc,               \* position of the running call
    ents,             \* doc.ents
    max_length,       \* the instance generator's max_length
    instances,        \* the list get_instances returns
    rel,              \* doc._.rel, in its iteration order
    threshold,        \* the threshold argument of extract_tuple_relations
    ent_start_to_ent, \* local dict of extract_tuple_relations
    idx,              \* position of the loop over doc._.rel.items()
    tuples,           \* local dict of extract_tuple_relations, in insertion order
    result,           \* what extract_tuple_relations returned
    docs,             \* the batch handed to instance_forward
    tokvecs,          \* what tok2vec returned for the batch
    all_instances,    \* local list of instance_forward, captured by backprop
    relations,        \* the matrix instance_forward returned
    d_relations,      \* the gradient handed to backprop
    d_tokvecs,        \* the list backprop hands to bp_tokvecs
    _synonyms,        \* LINKER._synonyms
    _properties,      \* LINKER._properties
    batch,            \* the entities of the docs handed to link_compounds
    min_occurences,   \* argument of link_compounds
    occurences,       \* local Counter of link_compounds, in insertion order
    pos,              \* position of the loop over occurences.items()
    properties,       \* local dict of link_compounds, and what it returns
    ent_props,        \* ent._.props of the entities of batch
    looked,           \* the names handed to LINKER.link during the running call
    sent,             \* the outbound queries of the running call
    returned,         \* what the last call of link returned
    ncalls,           \* number of direct calls of link so far
    not_found,        \* the names the database answered "not found" for
    ntok,             \* len(doc) of the doc handed to the quantities component
    response,         \* what the quantities service answered
    m_pos,            \* position of the loop over the measurements
    doc_ents,         \* local list of QuantitiesNERComponent.__call__
    new_tokens,       \* local set of QuantitiesNERComponent.__call__
    metadata_file,    \* the lines of the metadata file
    pdf_files,        \* the papers whose pdf is in download_dir
    args,             \* limit, force, save_parsed_docs of the running parse_papers
    papers,           \* parse_papers: the list read from the metadata file
    selected,         \* parse_papers: index in papers of the papers of the loop
    outcomes,         \* parse_papers: what happened to each paper of the loop so far
    output,           \* parse_papers: the ParsedPaper list
    attempts,         \* number of times each paper was downloaded or parsed, over all runs
    cleared,          \* what took processed marks out of the metadata file so far
    nruns,            \* number of runs started
    kwargs,           \* get_pipeline: its arguments
    nlp,              \* get_pipeline: the names of nlp.pipeline
    extensions,       \* the custom attributes of the Doc class
    keep,             \* filter_doc: the value returned
    calls,            \* parallel calls of link: where each call is, its argument and its locals
    use_lock,         \* the calls run link under a lock
    lock,             \* the call that holds the lock, 0 if none
    totalCount,       \* number of items the preprint server holds for the query
    params,           \* the default value of the argument params of query_generator
    gens,             \* the generators of query_generator: page, the rest of the page being yielded, history
    n_ents,           \* _assemble_per_fragment_info: number of entities, entity k has id k
    rels,             \* _assemble_per_fragment_info: the relations
    e_pos,            \* _assemble_per_fragment_info: position of the loop in ents
    open_relations,   \* _assemble_per_fragment_info: the dict's values in insertion order
    per_fragment_info \* _assemble_per_fragment_info: the fragments

vars == <<pc, ents, max_length, instances, rel, threshold, ent_start_to_ent,
          idx, tuples, result, docs, tokvecs, all_instances, relations,
          d_relations, d_tokvecs, _synonyms, _properties, batch,
          min_occurences, occurences, pos, properties, ent_props, looked,
          sent, returned, ncalls, not_found, ntok, response, m_pos, doc_ents,
          new_tokens, metadata_file, pdf_files, args, papers, selected,
          outcomes, output, attempts, cleared, nruns, kwargs, nlp, extensions,
          keep, calls, use_lock, lock, totalCount, params, gens, n_ents,
          rels, e_pos, open_relations, per_fragment_info>>

varsDoc == <<ents>>
varsInst == <<max_length, instances>>
varsTuples == <<rel, threshold, ent_start_to_ent, idx, tuples, result>>
varsTensor == <<docs, tokvecs, all_instances, relations, d_relations, d_tokvecs>>
varsCache == <<_synonyms, _properties>>
varsLink == <<_synonyms, _properties, batch, min_occurences, occurences, pos,
              properties, ent_props, looked, sent, returned, ncalls, not_found>>
varsQty == <<ntok, response, m_pos, doc_ents, new_tokens>>
varsPapers == <<metadata_file, pdf_files, args, papers, selected, outcomes, output, attempts, cleared, nruns>>
varsPipe == <<kwargs, nlp, extensions>>
varsFilter == <<keep>>
varsPar == <<calls, use_lock, lock>>
varsCrawl == <<totalCount, params, gens>>
varsRender == <<n_ents, rels, e_pos, open_relations, per_fragment_info>>

----------------------------------------------------------------------------
(* Bounds *)

\* number of tokens of a document
MaxTok == 4
\* largest max_length the generator is configured with
MaxLen == 2

Tokens == 0 .. (MaxTok - 1)

----------------------------------------------------------------------------
(* Documents *)

\* token.ent_type_ of a token outside every entity is the empty string
NoEnt == [label |-> "", ent_id |-> ""]

Span(start, label, ent_id) == [start |-> start, label |-> label, ent_id |-> ent_id]

RECURSIVE EntsFrom(_, _)
EntsFrom(f, p) ==
    IF p >= MaxTok THEN <<>>
    ELSE (IF f[p] = NoEnt THEN <<>>
          ELSE <<Span(p, f[p].label, f[p].ent_id)>>)
         \o EntsFrom(f, p + 1)

\* doc.ents of the document whose token p carries the entity kind f[p]
DocEnts(f) == EntsFrom(f, 0)

\* doc.ents after the span at position k was taken out (doc.ents reassigned)
WithoutEnt(es, k) == SubSeq(es, 1, k - 1) \o SubSeq(es, k + 1, Len(es))

----------------------------------------------------------------------------
(* Instance pair generator: src/cprex/rel/rel_model.py *)

\* the static property -> units mapping
PROPERTY_TO_UNITS ==
    [p \in {"density", "toxicity"} |->
        IF p = "density" THEN {"SOLUBILITY", "DENSITY"} ELSE {}]

HeadLabels == {"CHEM", "PROP", "FORMULA"}

Abs(n) == IF n < 0 THEN -n ELSE n

\* line 118: ent1 == ent2
SameSpan(ent1, ent2) == ent1 = ent2

\* line 121: max_length and abs(ent2.start - ent1.start) > max_length
TooFarMutant(ent1, ent2, L) == L # 0 /\ Abs(ent2.start - ent1.start) >= L

TooFar(ent1, ent2, L) == L # 0 /\ Abs(ent2.start - ent1.start) > L

\* lines 125-129: valid_types
ValidTypesMutant(ent1, ent2) == ent1.label \in HeadLabels

ValidTypes(ent1, ent2) ==
    ent1.label \in HeadLabels /\ ent2.label \notin HeadLabels

\* lines 136-144: the unit check that rejects the pair
UnitMismatchMutant(ent1, ent2) ==
    /\ ent1.label \in {"PROP", "FORMULA"}
    /\ ent2.label # "VALUE"
    /\ LET property_type == ent1.ent_id
           quantity_unit == ent2.label
       IN  /\ property_type # ""
           /\ property_type \in DOMAIN PROPERTY_TO_UNITS
           /\ quantity_unit \notin PROPERTY_TO_UNITS[property_type]

UnitMismatch(ent1, ent2) ==
    /\ ent1.label \in {"PROP", "FORMULA"}
    /\ ent2.label # "VALUE"
    /\ LET property_type == ent1.ent_id
           quantity_unit == ent2.label
       IN  /\ property_type # ""
           /\ property_type \in DOMAIN PROPERTY_TO_UNITS
           /\ PROPERTY_TO_UNITS[property_type] # {}
           /\ quantity_unit \notin PROPERTY_TO_UNITS[property_type]

can_link_instances_mutant(ent1, ent2, L) ==
    IF TooFar(ent1, ent2, L) THEN FALSE
    ELSE IF ~(ent1.label \in HeadLabels) THEN FALSE
    ELSE IF UnitMismatch(ent1, ent2) THEN FALSE
    ELSE TRUE

can_link_instances(ent1, ent2, L) ==
    IF SameSpan(ent1, ent2) THEN FALSE
    ELSE IF TooFar(ent1, ent2, L) THEN FALSE
    ELSE IF ~ValidTypes(ent1, ent2) THEN FALSE
    ELSE IF UnitMismatch(ent1, ent2) THEN FALSE
    ELSE TRUE

RECURSIVE InnerLoopMutant(_, _, _, _)
InnerLoopMutant(es, i, j, L) ==
    IF j > Len(es) THEN <<>>
    ELSE (IF j > i /\ can_link_instances(es[i], es[j], L)
          THEN << <<es[i], es[j]>> >> ELSE <<>>)
         \o InnerLoopMutant(es, i, j + 1, L)

RECURSIVE InnerLoop(_, _, _, _)
InnerLoop(es, i, j, L) ==
    IF j > Len(es) THEN <<>>
    ELSE (IF can_link_instances(es[i], es[j], L)
          THEN << <<es[i], es[j]>> >> ELSE <<>>)
         \o InnerLoop(es, i, j + 1, L)

RECURSIVE OuterLoop(_, _, _)
OuterLoop(es, i, L) ==
    IF i > Len(es) THEN <<>>
    ELSE InnerLoop(es, i, 1, L) \o OuterLoop(es, i + 1, L)

get_instances(es, L) == OuterLoop(es, 1, L)

----------------------------------------------------------------------------
(* Relation assembler: src/cprex/corpus/tuples.py *)

\* Optional[list]: None, or a list
None == [none |-> TRUE, list |-> <<>>]
Some(l) == [none |-> FALSE, list |-> l]

\* ChemPropValueRelation(doc, value): properties and chemicals default to None
ChemPropValueRelation(value) ==
    [value |-> value, properties |-> None, chemicals |-> None]

add_property(t, property) ==
    IF t.properties = None
    THEN [t EXCEPT !.properties = Some(<<property>>)]
    ELSE [t EXCEPT !.properties = Some(Append(@.list, property))]

add_chemicals(t, chemical) ==
    IF t.chemicals = None
    THEN [t EXCEPT !.chemicals = Some(<<chemical>>)]
    ELSE [t EXCEPT !.chemicals = Some(Append(@.list, chemical))]

add_head_mutant(t, head) ==
    IF head.label \in {"CHEM", "FORMULA"}
    THEN add_chemicals(t, head)
    ELSE add_property(t, head)

add_head(t, head) ==
    IF head.label = "CHEM"
    THEN add_chemicals(t, head)
    ELSE add_property(t, head)

\* lines 72-74: a later span with the same start replaces an earlier one
RECURSIVE BuildLookup(_, _)
BuildLookup(es, k) ==
    IF k = 0 THEN <<>>
    ELSE (es[k].start :> es[k]) @@ BuildLookup(es, k - 1)

\* the default of the threshold argument, line 60
DefaultThreshold == 45

\* line 79: prob >= threshold
QualifiesMutant(prob, th) == prob > th

Qualifies(prob, th) == prob >= th

\* The dict tuples is the sequence of its items [key, rel] in insertion order.
HasKey(d, key) == \E k \in 1 .. Len(d) : d[k].key = key

KeyPos(d, key) == CHOOSE k \in 1 .. Len(d) : d[k].key = key

\* Lines 79-85, one (pair, prob) of the nested loops.  st is the state of the
\* call: [status, tuples]; a failed dict lookup raises KeyError and ends it.
LoopBodyFirstHeadOnly(st, lookup, pair, prob, th) ==
    IF st.status # "ok" THEN st
    ELSE IF ~Qualifies(prob, th) THEN st
    ELSE IF pair[2] \notin DOMAIN lookup \/ pair[1] \notin DOMAIN lookup
    THEN [st EXCEPT !.status = "KeyError"]
    ELSE IF ~HasKey(st.tuples, pair[2])
    THEN [st EXCEPT !.tuples =
             Append(@, [key |-> pair[2],
                        rel |-> add_head(ChemPropValueRelation(lookup[pair[2]]),
                                         lookup[pair[1]])])]
    ELSE st

LoopBodyEagerTuple(st, lookup, pair, prob, th) ==
    IF st.status # "ok" THEN st
    ELSE IF pair[2] \notin DOMAIN lookup \/ pair[1] \notin DOMAIN lookup
    THEN (IF Qualifies(prob, th) THEN [st EXCEPT !.status = "KeyError"] ELSE st)
    ELSE LET value == lookup[pair[2]]
             head == lookup[pair[1]]
             d1 == IF HasKey(st.tuples, pair[2]) THEN st.tuples
                   ELSE Append(st.tuples,
                               [key |-> pair[2], rel |-> ChemPropValueRelation(value)])
             k == KeyPos(d1, pair[2])
         IN  IF Qualifies(prob, th)
             THEN [st EXCEPT !.tuples = [d1 EXCEPT ![k].rel = add_head(@, head)]]
             ELSE [st EXCEPT !.tuples = d1]

LoopBody(st, lookup, pair, prob, th) ==
    IF st.status # "ok" THEN st
    ELSE IF ~Qualifies(prob, th) THEN st
    ELSE IF pair[2] \notin DOMAIN lookup \/ pair[1] \notin DOMAIN lookup
    THEN [st EXCEPT !.status = "KeyError"]
    ELSE LET value == lookup[pair[2]]
             head == lookup[pair[1]]
             d1 == IF HasKey(st.tuples, pair[2]) THEN st.tuples
                   ELSE Append(st.tuples,
                               [key |-> pair[2], rel |-> ChemPropValueRelation(value)])
             k == KeyPos(d1, pair[2])
         IN  [st EXCEPT !.tuples = [d1 EXCEPT ![k].rel = add_head(@, head)]]

\* line 78: the loop over rel_dict.items(), from its n-th item on
RECURSIVE LabelLoop(_, _, _, _, _, _)
LabelLoop(st, lookup, pair, rel_dict, n, th) ==
    IF n > Len(rel_dict) THEN st
    ELSE LabelLoop(LoopBody(st, lookup, pair, rel_dict[n].prob, th),
                   lookup, pair, rel_dict, n + 1, th)

\* line 77: the loop over doc._.rel.items(), from its i-th item on
RECURSIVE PairLoop(_, _, _, _, _)
PairLoop(st, lookup, r, i, th) ==
    IF i > Len(r) THEN st
    ELSE PairLoop(LabelLoop(st, lookup, r[i].pair, r[i].rel_dict, 1, th),
                  lookup, r, i + 1, th)

\* line 87: tuples.values()
RECURSIVE SortedByKey(_)
SortedByKey(d) ==
    IF d = <<>> THEN <<>>
    ELSE LET k == CHOOSE k \in 1 .. Len(d) : \A m \in 1 .. Len(d) : d[k].key <= d[m].key
         IN  <<d[k].rel>> \o SortedByKey(SubSeq(d, 1, k - 1) \o SubSeq(d, k + 1, Len(d)))

ValuesMutant(d) == SortedByKey(d)

Values(d) == [k \in 1 .. Len(d) |-> d[k].rel]

\* The whole call: the returned list, or the exception raised.
extract_tuple_relations(es, r, th) ==
    LET st == PairLoop([status |-> "ok", tuples |-> <<>>],
                       BuildLookup(es, Len(es)), r, 1, th)
    IN  IF st.status = "ok"
        THEN [status |-> "ok", value |-> Values(st.tuples)]
        ELSE [status |-> st.status, value |-> <<>>]

----------------------------------------------------------------------------
(* The instance generator run on a document *)

\* (label, ent_id) of the entities a token may carry
InstKinds ==
    {[label |-> "CHEM", ent_id |-> ""],
     [label |-> "PROP", ent_id |-> ""],
     [label |-> "PROP", ent_id |-> "density"],
     [label |-> "PROP", ent_id |-> "toxicity"],
     [label |-> "PROP", ent_id |-> "unregistered"],
     [label |-> "FORMULA", ent_id |-> "density"],
     [label |-> "VALUE", ent_id |-> ""],
     [label |-> "DENSITY", ent_id |-> ""],
     [label |-> "TEMPERATURE", ent_id |-> ""]}

IdleInst == max_length = 0 /\ instances = <<>>

IdleTuples ==
    /\ rel = <<>>
    /\ threshold = DefaultThreshold
    /\ ent_start_to_ent = <<>>
    /\ idx = 0
    /\ tuples = <<>>
    /\ result = <<>>

\* link returns None, or the property record of a compound
NoProps == [none |-> TRUE, CID |-> 0]
Props(cid) == [none |-> FALSE, CID |-> cid]

\* linker.py line 138: min_occurences: int = 3
DefaultMinOccurences == 3

\* the linker as constructed, linker.py lines 25-27 and 135
IdleLink ==
    /\ _synonyms = <<>>
    /\ _properties = <<>>
    /\ batch = <<>>
    /\ min_occurences = DefaultMinOccurences
    /\ occurences = <<>>
    /\ pos = 0
    /\ properties = <<>>
    /\ ent_props = <<>>
    /\ looked = <<>>
    /\ sent = <<>>
    /\ returned = NoProps
    /\ ncalls = 0
    /\ not_found = {}

IdleTensor ==
    /\ docs = <<>>
    /\ tokvecs = <<>>
    /\ all_instances = <<>>
    /\ relations = <<>>
    /\ d_relations = <<>>
    /\ d_tokvecs = <<>>

\* QuantitiesNERComponent.__call__ has not been called
IdleQty ==
    /\ ntok = 0
    /\ response = <<>>
    /\ m_pos = 0
    /\ doc_ents = <<>>
    /\ new_tokens = {}

\* parse_papers has not been called
IdlePapers ==
    /\ metadata_file = <<>>
    /\ pdf_files = {}
    /\ args = <<>>
    /\ papers = <<>>
    /\ selected = <<>>
    /\ outcomes = <<>>
    /\ output = <<>>
    /\ attempts = <<>>
    /\ cleared = {}
    /\ nruns = 0

\* get_pipeline has not been called
IdlePipe ==
    /\ kwargs = <<>>
    /\ nlp = <<>>
    /\ extensions = {}

\* filter_doc has not been called
IdleFilter == keep = FALSE

\* no parallel call of link
IdlePar ==
    /\ calls = <<>>
    /\ use_lock = FALSE
    /\ lock = 0

\* no query_generator was created
IdleCrawl ==
    /\ totalCount = 0
    /\ params = <<>>
    /\ gens = <<>>

\* _assemble_per_fragment_info has not been called
IdleRender ==
    /\ n_ents = 0
    /\ rels = <<>>
    /\ e_pos = 0
    /\ open_relations = <<>>
    /\ per_fragment_info = <<>>

InitInst ==
    /\ pc = "start"
    /\ \E f \in [Tokens -> InstKinds \cup {NoEnt}] : ents = DocEnts(f)
    /\ max_length \in 0 .. MaxLen
    /\ instances = <<>>
    /\ IdleTuples
    /\ IdleTensor
    /\ IdleLink
    /\ IdleQty
    /\ IdlePapers
    /\ IdlePipe
    /\ IdleFilter
    /\ IdlePar
    /\ IdleCrawl
    /\ IdleRender

\* get_instances(doc), lines 32-38
GetInstances ==
    /\ pc = "start"
    /\ instances' = get_instances(ents, max_length)
    /\ pc' = "done"
    /\ UNCHANGED <<ents, max_length>>
    /\ UNCHANGED varsTuples
    /\ UNCHANGED varsTensor
    /\ UNCHANGED varsLink
    /\ UNCHANGED varsQty
    /\ UNCHANGED varsPapers
    /\ UNCHANGED varsPipe
    /\ UNCHANGED varsFilter
    /\ UNCHANGED varsPar
    /\ UNCHANGED varsCrawl
    /\ UNCHANGED varsRender

NextInst == GetInstances

SpecInst == InitInst /\ [][NextInst]_vars

----------------------------------------------------------------------------
(* The assembler run on a document *)

\* labels of the entities of an assembled document
TupleKinds ==
    {[label |-> "CHEM", ent_id |-> ""],
     [label |-> "PROP", ent_id |-> ""],
     [label |-> "FORMULA", ent_id |-> ""],
     [label |-> "VALUE", ent_id |-> ""]}

\* probabilities the classifier gave, and thresholds the caller passes
Probs == {40, 45}
Thresholds == {DefaultThreshold, 40}

\* the relation labels, MAP_LABELS
RelLabels == <<"has_value">>

RelDicts == {[n \in 1 .. Len(RelLabels) |-> [label |-> RelLabels[n], prob |-> q[n]]] :
                q \in [1 .. Len(RelLabels) -> Probs]}

\* doc._.rel holds one entry per generated instance, keyed by the two start
\* offsets, in the generator's order
RelMatrices(es) ==
    LET insts == get_instances(es, 0)
    IN  {[i \in 1 .. Len(insts) |->
             [pair |-> <<insts[i][1].start, insts[i][2].start>>, rel_dict |-> d[i]]] :
         d \in [1 .. Len(insts) -> RelDicts]}

\* doc.ents at the time of the call: as classified, or with one span taken out
EntsAtCall(es) == {es} \cup {WithoutEnt(es, k) : k \in 1 .. Len(es)}

InitTuples ==
    /\ pc = "start"
    /\ \E f \in [Tokens -> TupleKinds \cup {NoEnt}] :
          /\ rel \in RelMatrices(DocEnts(f))
          /\ ents \in EntsAtCall(DocEnts(f))
    /\ threshold \in Thresholds
    /\ ent_start_to_ent = <<>>
    /\ idx = 0
    /\ tuples = <<>>
    /\ result = <<>>
    /\ IdleInst
    /\ IdleTensor
    /\ IdleLink
    /\ IdleQty
    /\ IdlePapers
    /\ IdlePipe
    /\ IdleFilter
    /\ IdlePar
    /\ IdleCrawl
    /\ IdleRender

\* lines 72-76: the lookup is built, tuples is empty
Call ==
    /\ pc = "start"
    /\ ent_start_to_ent' = BuildLookup(ents, Len(ents))
    /\ tuples' = <<>>
    /\ idx' = 1
    /\ pc' = "loop"
    /\ UNCHANGED <<ents, rel, threshold, result>>
    /\ UNCHANGED varsInst
    /\ UNCHANGED varsTensor
    /\ UNCHANGED varsLink
    /\ UNCHANGED varsQty
    /\ UNCHANGED varsPapers
    /\ UNCHANGED varsPipe
    /\ UNCHANGED varsFilter
    /\ UNCHANGED varsPar
    /\ UNCHANGED varsCrawl
    /\ UNCHANGED varsRender

IterateMutant ==
    /\ pc = "loop"
    /\ rel # <<>>
    /\ LET st == LabelLoop([status |-> "ok", tuples |-> tuples], ent_start_to_ent,
                           Head(rel).pair, Head(rel).rel_dict, 1, threshold)
       IN  /\ tuples' = st.tuples
           /\ pc' = IF st.status = "ok" THEN "loop" ELSE "raised"
    /\ rel' = Tail(rel)
    /\ UNCHANGED <<ents, threshold, ent_start_to_ent, idx, result>>
    /\ UNCHANGED varsInst
    /\ UNCHANGED varsTensor
    /\ UNCHANGED varsLink
    /\ UNCHANGED varsQty
    /\ UNCHANGED varsPapers
    /\ UNCHANGED varsPipe
    /\ UNCHANGED varsFilter
    /\ UNCHANGED varsPar
    /\ UNCHANGED varsCrawl
    /\ UNCHANGED varsRender

\* lines 77-85: one item of doc._.rel.items(), with the loop over its labels
Iterate ==
    /\ pc = "loop"
    /\ idx <= Len(rel)
    /\ LET st == LabelLoop([status |-> "ok", tuples |-> tuples], ent_start_to_ent,
                           rel[idx].pair, rel[idx].rel_dict, 1, threshold)
       IN  /\ tuples' = st.tuples
           /\ pc' = IF st.status = "ok" THEN "loop" ELSE "raised"
    /\ idx' = idx + 1
    /\ UNCHANGED <<ents, rel, threshold, ent_start_to_ent, result>>
    /\ UNCHANGED varsInst
    /\ UNCHANGED varsTensor
    /\ UNCHANGED varsLink
    /\ UNCHANGED varsQty
    /\ UNCHANGED varsPapers
    /\ UNCHANGED varsPipe
    /\ UNCHANGED varsFilter
    /\ UNCHANGED varsPar
    /\ UNCHANGED varsCrawl
    /\ UNCHANGED varsRender

\* line 87
Return ==
    /\ pc = "loop"
    /\ idx > Len(rel)
    /\ result' = Values(tuples)
    /\ pc' = "done"
    /\ UNCHANGED <<ents, rel, threshold, ent_start_to_ent, idx, tuples>>
    /\ UNCHANGED varsInst
    /\ UNCHANGED varsTensor
    /\ UNCHANGED varsLink
    /\ UNCHANGED varsQty
    /\ UNCHANGED varsPapers
    /\ UNCHANGED varsPipe
    /\ UNCHANGED varsFilter
    /\ UNCHANGED varsPar
    /\ UNCHANGED varsCrawl
    /\ UNCHANGED varsRender

NextTuples == Call \/ Iterate \/ Return

SpecTuples == InitTuples /\ [][NextTuples]_vars

----------------------------------------------------------------------------
(* Properties of the relation assembler, checked under SpecTuples *)

Range(q) == {q[k] : k \in 1 .. Len(q)}

\* the list behind an Optional[list]
ListOf(o) == IF o.none THEN <<>> ELSE o.list

\* the heads a tuple holds
HeadsOf(t) == Range(ListOf(t.chemicals)) \cup Range(ListOf(t.properties))

\* entry i of doc._.rel has a label whose probability reaches the threshold
Reaches(i) ==
    \E n \in 1 .. Len(rel[i].rel_dict) : rel[i].rel_dict[n].prob >= threshold

\* the entries whose probability reaches the threshold, and their tails
Reaching == {i \in 1 .. Len(rel) : Reaches(i)}
ReachedTails == {rel[i].pair[2] : i \in Reaching}

\* an entry naming a start offset at which doc.ents has no span
Dangling(i) ==
    \E s \in {rel[i].pair[1], rel[i].pair[2]} : \A e \in Range(ents) : e.start # s

\* the span of doc.ents starting at offset s
EntAt(s) == CHOOSE e \in Range(ents) : e.start = s

\* the first entry with tail t whose probability reaches the threshold
FirstReaching(t) ==
    CHOOSE i \in Reaching :
        /\ rel[i].pair[2] = t
        /\ \A m \in Reaching : rel[m].pair[2] = t => i <= m

\* C1: the call returns exactly one tuple per tail offset that has an entry
\* reaching the threshold; its value is the span starting at that offset and
\* its heads are the heads of all those entries, and of no other entry.  The
\* call raises only on an entry that reaches the threshold and names an offset
\* without a span; with no entry reaching the threshold it returns no tuple.
C1_OneTuplePerReachedTail ==
    /\ pc = "raised" => \E i \in Reaching : Dangling(i)
    /\ pc = "done" =>
        /\ \A t \in ReachedTails :
              Cardinality({k \in 1 .. Len(result) : result[k].value.start = t}) = 1
        /\ \A k \in 1 .. Len(result) :
              /\ result[k].value.start \in ReachedTails
              /\ result[k].value = EntAt(result[k].value.start)
              /\ HeadsOf(result[k]) =
                    {EntAt(rel[i].pair[1]) :
                        i \in {m \in Reaching : rel[m].pair[2] = result[k].value.start}}
        /\ (Reaching = {} => result = <<>>)

\* a tail with a chemical head and a property head, from two entries
C1_Witness ==
    /\ pc = "done"
    /\ \E k \in 1 .. Len(result) :
          /\ ~result[k].chemicals.none
          /\ ~result[k].properties.none
          /\ Cardinality(HeadsOf(result[k])) >= 2

\* C2: an entry whose probability equals the threshold adds its head to the
\* tuple of its tail; an entry whose probabilities are all below the threshold
\* changes nothing.
C2_ThresholdInclusive ==
    [][(pc = "loop" /\ pc' = "loop") =>
          LET e == rel[idx]
              probs == {e.rel_dict[n].prob : n \in 1 .. Len(e.rel_dict)}
          IN  /\ (threshold \in probs =>
                     \E k \in 1 .. Len(tuples') :
                         /\ tuples'[k].key = e.pair[2]
                         /\ EntAt(e.pair[1]) \in HeadsOf(tuples'[k].rel)
                         /\ (k > Len(tuples) \/ tuples'[k] # tuples[k]))
              /\ ((\A q \in probs : q < threshold) => tuples' = tuples)]_vars

\* an entry at exactly the threshold was processed and has its tuple
C2_Witness ==
    /\ pc = "loop"
    /\ idx > 1
    /\ \E n \in 1 .. Len(rel[idx - 1].rel_dict) :
          rel[idx - 1].rel_dict[n].prob = threshold
    /\ \E k \in 1 .. Len(tuples) : tuples[k].key = rel[idx - 1].pair[2]

\* the entries processed so far by a call that has not raised
Processed == {i \in Reaching : pc \in {"loop", "done"} /\ i < idx}

\* C3: a head is in the chemicals list iff its label is CHEM, and in the
\* properties list otherwise; every added head is in one list only.
C3_HeadRouting ==
    \A k \in 1 .. Len(tuples) :
        LET t == tuples[k].rel
            mine == {i \in Processed : rel[i].pair[2] = tuples[k].key}
        IN  /\ \A c \in Range(ListOf(t.chemicals)) : c.label = "CHEM"
            /\ \A p \in Range(ListOf(t.properties)) : p.label # "CHEM"
            /\ \A i \in mine :
                  LET h == EntAt(rel[i].pair[1])
                  IN  IF h.label = "CHEM"
                      THEN h \in Range(ListOf(t.chemicals))
                      ELSE h \in Range(ListOf(t.properties))
            /\ pc \in {"loop", "done"} =>
                  Len(ListOf(t.chemicals)) + Len(ListOf(t.properties)) =
                      Cardinality({<<i, n>> \in mine \X (1 .. Len(RelLabels)) :
                                      rel[i].rel_dict[n].prob >= threshold})

\* a tuple with a CHEM head among its chemicals and a FORMULA head among its
\* properties
C3_Witness ==
    /\ pc = "done"
    /\ \E k \in 1 .. Len(result) :
          /\ \E c \in Range(ListOf(result[k].chemicals)) : c.label = "CHEM"
          /\ \E p \in Range(ListOf(result[k].properties)) : p.label = "FORMULA"

\* C4: every tuple the call holds or returns has its value, the span at its
\* tail offset, and at least one head.
C4_TupleHasValueAndHead ==
    /\ \A k \in 1 .. Len(tuples) :
          /\ tuples[k].rel.value \in Range(ents)
          /\ tuples[k].rel.value.start = tuples[k].key
          /\ ~(tuples[k].rel.chemicals = None /\ tuples[k].rel.properties = None)
          /\ HeadsOf(tuples[k].rel) # {}
    /\ \A k \in 1 .. Len(result) :
          /\ result[k].value \in Range(ents)
          /\ ~(result[k].chemicals = None /\ result[k].properties = None)
          /\ HeadsOf(result[k]) # {}

\* tuples were returned although the matrix also holds an entry below the
\* threshold for a tail that got no tuple
C4_Witness ==
    /\ pc = "done"
    /\ result # <<>>
    /\ \E i \in 1 .. Len(rel) :
          /\ ~Reaches(i)
          /\ \A k \in 1 .. Len(result) : result[k].value.start # rel[i].pair[2]

\* C5: an entry that reaches the threshold and names an offset without a span
\* is skipped without an exception, and the tuples of the other entries are
\* returned.
C5_DanglingEntrySkipped ==
    /\ pc # "raised"
    /\ pc = "done" =>
          \A i \in Reaching :
              ~Dangling(i) =>
                  \E k \in 1 .. Len(result) : result[k].value.start = rel[i].pair[2]

\* C6: tuples are returned in the order in which their tails first got an
\* entry reaching the threshold.
C6_FirstAppearanceOrder ==
    pc = "done" =>
        \A k1, k2 \in 1 .. Len(result) :
            k1 < k2 =>
                FirstReaching(result[k1].value.start)
                    < FirstReaching(result[k2].value.start)

\* two tuples, the first for the larger offset, the first with a later entry
C6_Witness ==
    /\ pc = "done"
    /\ Len(result) = 2
    /\ result[1].value.start > result[2].value.start
    /\ \E i \in Reaching :
          /\ rel[i].pair[2] = result[1].value.start
          /\ i > FirstReaching(result[2].value.start)

\* C7: no step of the call changes doc.ents or doc._.rel.
C7_InputsUnchanged == [][ents' = ents /\ rel' = rel]_vars

\* the call has run over a non-empty matrix and returned tuples
C7_Witness == pc = "done" /\ result # <<>> /\ rel # <<>> /\ ents # <<>>

----------------------------------------------------------------------------
(* Properties of the instance generator, checked under SpecInst *)

\* C8: every generated pair has a CHEM, PROP or FORMULA head and a tail of
\* another label; no pair is generated in both directions.
C8_HeadToValueOnly ==
    pc = "done" =>
        /\ \A k \in 1 .. Len(instances) :
              /\ instances[k][1].label \in {"CHEM", "PROP", "FORMULA"}
              /\ instances[k][2].label \notin {"CHEM", "PROP", "FORMULA"}
        /\ \A k, m \in 1 .. Len(instances) :
              ~(instances[k][1] = instances[m][2] /\ instances[k][2] = instances[m][1])

\* a document with two head-like spans, of which only the pairs towards the
\* value were generated
C8_Witness ==
    /\ pc = "done"
    /\ instances # <<>>
    /\ \E i, j \in 1 .. Len(ents) :
          i # j /\ ents[i].label = "CHEM" /\ ents[j].label = "PROP"

\* C9: no generated pair has the same span as head and tail; a document with
\* fewer than two entities yields no pair.
C9_NoSelfPair ==
    pc = "done" =>
        /\ \A k \in 1 .. Len(instances) : instances[k][1] # instances[k][2]
        /\ (Len(ents) < 2 => instances = <<>>)

\* pairs were generated from a document with a head-like span
C9_Witness ==
    /\ pc = "done"
    /\ Len(ents) >= 2
    /\ instances # <<>>

\* C10: with max_length L # 0 every generated pair has its starts at most L
\* apart, and a CHEM-VALUE pair exactly L apart is generated; with max_length 0
\* CHEM-VALUE pairs are generated at any distance.
C10_MaxLength ==
    pc = "done" =>
        /\ (max_length # 0 =>
               \A k \in 1 .. Len(instances) :
                   /\ instances[k][2].start - instances[k][1].start <= max_length
                   /\ instances[k][1].start - instances[k][2].start <= max_length)
        /\ \A i, j \in 1 .. Len(ents) :
              (/\ ents[i].label = "CHEM"
               /\ ents[j].label = "VALUE"
               /\ \/ max_length = 0
                  \/ /\ ents[j].start - ents[i].start <= max_length
                     /\ ents[i].start - ents[j].start <= max_length)
              => <<ents[i], ents[j]>> \in Range(instances)

\* a pair exactly max_length apart was generated, and a farther one was not
C10_Witness ==
    /\ pc = "done"
    /\ max_length # 0
    /\ \E k \in 1 .. Len(instances) :
          instances[k][2].start - instances[k][1].start = max_length
    /\ \E i, j \in 1 .. Len(ents) :
          /\ ents[i].label = "CHEM"
          /\ ents[j].label = "VALUE"
          /\ ents[j].start - ents[i].start > max_length
          /\ <<ents[i], ents[j]>> \notin Range(instances)

\* the two spans are within max_length of each other, or max_length is unset
Near(h, t) ==
    \/ max_length = 0
    \/ (t.start - h.start <= max_length /\ h.start - t.start <= max_length)

\* the head's sub-type id is registered with units, none of them the tail's label
UnitsExclude(h, t) ==
    /\ h.ent_id \in DOMAIN PROPERTY_TO_UNITS
    /\ PROPERTY_TO_UNITS[h.ent_id] # {}
    /\ t.label \notin PROPERTY_TO_UNITS[h.ent_id]

\* C11: among the pairs that pass the distance and type tests, a PROP or
\* FORMULA head with a tail other than VALUE is rejected iff its sub-type id is
\* registered with a non-empty unit set that lacks the tail's label; a CHEM
\* head, a VALUE tail, an empty or unregistered id and an empty unit set are
\* never rejected (density with TEMPERATURE is rejected, toxicity never is).
C11_UnitGuard ==
    pc = "done" =>
        \A i, j \in 1 .. Len(ents) :
            LET h == ents[i]
                t == ents[j]
                generated == <<h, t>> \in Range(instances)
            IN  (/\ h.label \in {"CHEM", "PROP", "FORMULA"}
                 /\ t.label \notin {"CHEM", "PROP", "FORMULA"}
                 /\ Near(h, t))
                => /\ (h.label \in {"PROP", "FORMULA"} /\ t.label # "VALUE")
                          => (~generated <=> UnitsExclude(h, t))
                   /\ (h.label = "CHEM" \/ t.label = "VALUE") => generated
                   /\ h.ent_id \in {"", "unregistered", "toxicity"} => generated
                   /\ (h.ent_id = "density" /\ t.label = "TEMPERATURE") => ~generated
                   /\ (h.ent_id = "density" /\ t.label = "DENSITY") => generated

\* a density property next to a temperature (rejected) and a toxicity property
\* next to the same temperature (generated)
C11_Witness ==
    /\ pc = "done"
    /\ \E i, j, k \in 1 .. Len(ents) :
          /\ ents[i].label = "PROP" /\ ents[i].ent_id = "density"
          /\ ents[k].label = "PROP" /\ ents[k].ent_id = "toxicity"
          /\ ents[j].label = "TEMPERATURE"
          /\ Near(ents[i], ents[j])
          /\ <<ents[i], ents[j]>> \notin Range(instances)
          /\ <<ents[k], ents[j]>> \in Range(instances)

\* the four constraints on an ordered pair of spans
Linkable(h, t) ==
    /\ h # t
    /\ Near(h, t)
    /\ h.label \in {"CHEM", "PROP", "FORMULA"}
    /\ t.label \notin {"CHEM", "PROP", "FORMULA"}
    /\ ~(h.label # "CHEM" /\ t.label # "VALUE" /\ UnitsExclude(h, t))

\* position of a span in doc.ents
PosOf(e) == CHOOSE i \in 1 .. Len(ents) : ents[i] = e

\* C12: get_instances returns the pairs of doc.ents x doc.ents that satisfy the
\* four constraints, each once, ordered by head position and then by tail
\* position.
C12_AllPairsInDiscoveryOrder ==
    pc = "done" =>
        /\ Range(instances) =
              {<<ents[i], ents[j]>> : <<i, j>> \in
                  {q \in (1 .. Len(ents)) \X (1 .. Len(ents)) :
                      Linkable(ents[q[1]], ents[q[2]])}}
        /\ \A k, m \in 1 .. Len(instances) :
              k < m =>
                  \/ PosOf(instances[k][1]) < PosOf(instances[m][1])
                  \/ /\ PosOf(instances[k][1]) = PosOf(instances[m][1])
                     /\ PosOf(instances[k][2]) < PosOf(instances[m][2])

\* two heads around a value and a second value: the pairs of one head point
\* backwards and forwards
C12_Witness ==
    /\ pc = "done"
    /\ Len(instances) >= 3
    /\ \E k \in 1 .. Len(instances) : instances[k][2].start < instances[k][1].start
    /\ \E k \in 1 .. Len(instances) : instances[k][2].start > instances[k][1].start

----------------------------------------------------------------------------
(* Instance tensor builder: src/cprex/rel/rel_model.py, instance_forward *)

\* number of tokens of a batch, all documents together
MaxBatchTok == 5
\* width of a token vector
Hidden == 2

\* fractions in lowest terms with a positive denominator
RECURSIVE GCD(_, _)
GCD(a, b) == IF b = 0 THEN a ELSE GCD(b, a % b)

Frac(n, d) == LET g == GCD(Abs(n), d) IN <<n \div g, d \div g>>
Zero == <<0, 1>>
FracAdd(x, y) == Frac(x[1] * y[2] + y[1] * x[2], x[2] * y[2])
FracDivInt(x, k) == Frac(x[1], x[2] * k)

\* elementwise sum of two rows
RowAdd(r1, r2) == [h \in DOMAIN r1 |-> FracAdd(r1[h], r2[h])]

RECURSIVE Flatten(_)
\* concatenation of a sequence of sequences
Flatten(ss) == IF ss = <<>> THEN <<>> ELSE Head(ss) \o Flatten(Tail(ss))

\* token tags of a document: outside, begin of a CHEM or of a VALUE entity,
\* inside the entity begun before
Tags == {"O", "B-CHEM", "B-VALUE", "I"}

TagSeqs(n) ==
    {f \in [0 .. (n - 1) -> Tags] :
        /\ f[0] # "I"
        /\ \A p \in 1 .. (n - 1) : f[p] = "I" => f[p - 1] # "O"}

\* a Span of several tokens: tokens start .. end - 1
LongSpan(start, end, label) ==
    [start |-> start, end |-> end, label |-> label, ent_id |-> ""]

RECURSIVE SpanEnd(_, _, _)
\* first position from p on that is not inside the entity
SpanEnd(f, n, p) == IF p < n /\ f[p] = "I" THEN SpanEnd(f, n, p + 1) ELSE p

RECURSIVE TaggedEnts(_, _, _)
TaggedEnts(f, n, p) ==
    IF p >= n THEN <<>>
    ELSE (IF f[p] = "B-CHEM" THEN <<LongSpan(p, SpanEnd(f, n, p + 1), "CHEM")>>
          ELSE IF f[p] = "B-VALUE" THEN <<LongSpan(p, SpanEnd(f, n, p + 1), "VALUE")>>
          ELSE <<>>)
         \o TaggedEnts(f, n, p + 1)

\* the documents of n tokens: len(doc) and doc.ents
DocsOfLen(n) == {[n |-> n, ents |-> TaggedEnts(f, n, 0)] : f \in TagSeqs(n)}

RECURSIVE Batches(_)
\* the batches of documents with at most budget tokens together
Batches(budget) ==
    {<<>>} \cup
    UNION {LET rest == Batches(budget - n)
           IN  {<<d>> \o b : d \in DocsOfLen(n), b \in rest} :
              n \in 1 .. budget}

RECURSIVE SumSeq(_)
SumSeq(q) == IF q = <<>> THEN 0 ELSE Head(q) + SumSeq(Tail(q))

\* tokens of the documents before document doc_nr
TokensBefore(ds, doc_nr) == SumSeq([k \in 1 .. (doc_nr - 1) |-> ds[k].n])

\* line 66: tok2vec(docs, is_train) gives one matrix per document, a row per
\* token; every token of the batch has its own vector
tok2vec(ds) ==
    [doc_nr \in 1 .. Len(ds) |->
        [t \in 1 .. ds[doc_nr].n |->
            [h \in 1 .. Hidden |->
                Frac((TokensBefore(ds, doc_nr) + t) * (Hidden + 1) + h * h, 1)]]]

\* lines 73-74: "for instance in instances: for ent in instance"
EntsOf(insts) ==
    [i \in 1 .. (2 * Len(insts)) |-> insts[(i + 1) \div 2][((i - 1) % 2) + 1]]

\* range(ent.start, ent.end)
range(a, b) == [i \in 1 .. (b - a) |-> a + i - 1]

\* lines 72-75: token_indices of one document
token_indices(insts) ==
    Flatten([i \in 1 .. (2 * Len(insts)) |->
                range(EntsOf(insts)[i].start, EntsOf(insts)[i].end)])

\* lines 69, 76: lengths, over the whole batch
lengths(all) ==
    Flatten([doc_nr \in 1 .. Len(all) |->
                [i \in 1 .. (2 * Len(all[doc_nr])) |->
                    EntsOf(all[doc_nr])[i].end - EntsOf(all[doc_nr])[i].start]])

\* line 77: tokvec[token_indices]
TakeRows(tokvec, indices) == [i \in 1 .. Len(indices) |-> tokvec[indices[i] + 1]]

RECURSIVE SumRows(_, _, _)
\* sum of rows from .. from + n - 1 of data
SumRows(data, from, n) ==
    IF n = 1 THEN data[from]
    ELSE RowAdd(data[from], SumRows(data, from + 1, n - 1))

\* offset of segment i of a ragged array
Offset(lens, i) == SumSeq(SubSeq(lens, 1, i - 1))

\* line 80: mean pooling of a Ragged, one row per segment
reduce_mean(data, lens) ==
    [i \in 1 .. Len(lens) |->
        LET total == SumRows(data, Offset(lens, i) + 1, lens[i])
        IN  [h \in 1 .. Hidden |-> FracDivInt(total[h], lens[i])]]

\* line 83: reshape2f(pooled, -1, pooled.shape[1] * 2)
PairRowsMutant(pooled) ==
    [k \in 1 .. (Len(pooled) \div 2) |->
        pooled[k] \o pooled[k + (Len(pooled) \div 2)]]

PairRows(pooled) ==
    [k \in 1 .. (Len(pooled) \div 2) |-> pooled[2 * k - 1] \o pooled[2 * k]]

\* lines 65-83
instance_forward(ds, tv, all) ==
    LET ents_ == [doc_nr \in 1 .. Len(ds) |->
                     TakeRows(tv[doc_nr], token_indices(all[doc_nr]))]
        lengths_arr == lengths(all)
        pooled == reduce_mean(Flatten(ents_), lengths_arr)
    IN  PairRows(pooled)

\* line 86: reshape2f(d_relations, d_relations.shape[0] * 2, -1).  With no
\* row the target shape is (0, -1), whose second dimension numpy cannot
\* infer: the reshape raises ValueError.
SplitRows(d_rel) ==
    IF Len(d_rel) = 0 THEN [raised |-> TRUE, rows |-> <<>>]
    ELSE [raised |-> FALSE,
          rows |-> [i \in 1 .. (2 * Len(d_rel)) |->
                      IF i % 2 = 1 THEN SubSeq(d_rel[(i + 1) \div 2], 1, Hidden)
                      ELSE SubSeq(d_rel[i \div 2], Hidden + 1, 2 * Hidden)]]

\* line 87: the backward pass of mean pooling gives every token of segment i
\* the i-th gradient row divided by the segment's length
backprop_reduce_mean(d_means, lens) ==
    Flatten([i \in 1 .. Len(lens) |->
                [t \in 1 .. lens[i] |->
                    [h \in 1 .. Hidden |-> FracDivInt(d_means[i][h], lens[i])]]])

\* lines 92-93: alloc2f(*shape)
alloc2f(n, zero) == [t \in 1 .. n |-> [h \in 1 .. Hidden |-> zero]]

\* line 96: d_tokvec[ent.start : ent.end] += d_ents[ent_index]
AddToSlice(m, start, end, row) ==
    [t \in DOMAIN m |-> IF start < t /\ t <= end THEN RowAdd(m[t], row) ELSE m[t]]

\* line 97: count_occ[ent.start : ent.end] += 1
CountSlice(m, start, end) ==
    [t \in DOMAIN m |->
        IF start < t /\ t <= end THEN [h \in DOMAIN m[t] |-> m[t][h] + 1] ELSE m[t]]

\* lines 96-98: the body of "for ent in instance"
AccumulateEntMutant(st, ent, d_ents) ==
    [d_tokvec  |-> AddToSlice(st.d_tokvec, ent.start, ent.end, d_ents[st.ent_index + 1]),
     count_occ |-> [t \in DOMAIN st.count_occ |->
                       [h \in DOMAIN st.count_occ[t] |->
                           IF ent.start < t /\ t <= ent.end THEN 1
                           ELSE st.count_occ[t][h]]],
     ent_index |-> st.ent_index + (ent.end - ent.start)]

AccumulateEnt(st, ent, d_ents) ==
    [d_tokvec  |-> AddToSlice(st.d_tokvec, ent.start, ent.end, d_ents[st.ent_index + 1]),
     count_occ |-> CountSlice(st.count_occ, ent.start, ent.end),
     ent_index |-> st.ent_index + (ent.end - ent.start)]

RECURSIVE Accumulate(_, _, _, _)
\* lines 94-98: the loops over the instances of a document and their two spans
Accumulate(st, occ, i, d_ents) ==
    IF i > Len(occ) THEN st
    ELSE Accumulate(AccumulateEnt(st, occ[i], d_ents), occ, i + 1, d_ents)

\* line 99: an entry of d_tokvec /= count_occ + 0.00000000001.  The arrays are
\* float32: a count of 1 or more absorbs the epsilon, a count of 0 leaves the
\* epsilon as the divisor, and x / epsilon is x scaled by 10^11.
DivideByCountMutant(x, count) ==
    IF x = Zero THEN Zero
    ELSE IF count >= 1 THEN <<x[1], x[2] * count, "1 + 1e-11">>
    ELSE <<x[1], x[2], "e11">>

DivideByCount(x, count) ==
    IF count >= 1 THEN FracDivInt(x, count)
    ELSE IF x = Zero THEN Zero
    ELSE <<x[1], x[2], "e11">>

\* lines 91-99: the gradient of one document
DocGradient(n, insts, ent_index, d_ents) ==
    LET st == Accumulate([d_tokvec  |-> alloc2f(n, Zero),
                          count_occ |-> alloc2f(n, 0),
                          ent_index |-> ent_index],
                         EntsOf(insts), 1, d_ents)
    IN  [d_tokvec  |-> [t \in 1 .. n |->
                          [h \in 1 .. Hidden |->
                              DivideByCount(st.d_tokvec[t][h], st.count_occ[t][h])]],
         ent_index |-> st.ent_index]

RECURSIVE DocLoop(_, _, _, _, _)
\* lines 89-100: "for doc_nr, instances in enumerate(all_instances)"
DocLoop(tv, all, doc_nr, ent_index, d_ents) ==
    IF doc_nr > Len(all) THEN <<>>
    ELSE LET g == DocGradient(Len(tv[doc_nr]), all[doc_nr], ent_index, d_ents)
         IN  <<g.d_tokvec>> \o DocLoop(tv, all, doc_nr + 1, g.ent_index, d_ents)

\* lines 85-103: the exception of line 86 leaves backprop before any
\* gradient is allocated
backprop(d_rel, tv, all) ==
    LET d_pooled == SplitRows(d_rel)
        d_ents == backprop_reduce_mean(d_pooled.rows, lengths(all))
    IN  IF d_pooled.raised THEN [raised |-> TRUE, d_docs |-> <<>>]
        ELSE [raised |-> FALSE, d_docs |-> DocLoop(tv, all, 1, 0, d_ents)]

----------------------------------------------------------------------------
(* Specification of the tensor builder *)

\* the generator is built with max_length unset or set
TensorMaxLengths == {0, 2}

\* gradients of the shape of relations: all ones, or a different value in
\* every entry
Gradients(rows) ==
    {[k \in 1 .. rows |-> [c \in 1 .. (2 * Hidden) |-> Frac(1, 1)]],
     [k \in 1 .. rows |-> [c \in 1 .. (2 * Hidden) |->
                              Frac((k - 1) * 2 * Hidden + c, 1)]]}

InitTensor ==
    /\ pc = "start"
    /\ docs \in Batches(MaxBatchTok) \ {<<>>}
    /\ ents = <<>>
    /\ max_length \in TensorMaxLengths
    /\ instances = <<>>
    /\ IdleTuples
    /\ IdleLink
    /\ IdleQty
    /\ IdlePapers
    /\ IdlePipe
    /\ IdleFilter
    /\ IdlePar
    /\ IdleCrawl
    /\ IdleRender
    /\ tokvecs = <<>>
    /\ all_instances = <<>>
    /\ relations = <<>>
    /\ d_relations = <<>>
    /\ d_tokvecs = <<>>

\* instance_forward(model, docs, is_train)
Forward ==
    /\ pc = "start"
    /\ LET all == [doc_nr \in 1 .. Len(docs) |->
                      get_instances(docs[doc_nr].ents, max_length)]
           tv == tok2vec(docs)
       IN  /\ all_instances' = all
           /\ tokvecs' = tv
           /\ relations' = instance_forward(docs, tv, all)
    /\ pc' = "forward"
    /\ UNCHANGED <<ents, docs, d_relations, d_tokvecs>>
    /\ UNCHANGED varsInst
    /\ UNCHANGED varsTuples
    /\ UNCHANGED varsLink
    /\ UNCHANGED varsQty
    /\ UNCHANGED varsPapers
    /\ UNCHANGED varsPipe
    /\ UNCHANGED varsFilter
    /\ UNCHANGED varsPar
    /\ UNCHANGED varsCrawl
    /\ UNCHANGED varsRender

\* backprop(d_relations), the closure instance_forward returned
Backward ==
    /\ pc = "forward"
    /\ \E g \in Gradients(Len(relations)) :
          \E back \in {backprop(g, tokvecs, all_instances)} :
              /\ d_relations' = g
              /\ d_tokvecs' = back.d_docs
              /\ pc' = IF back.raised THEN "raised" ELSE "done"
    /\ UNCHANGED <<ents, docs, tokvecs, all_instances, relations>>
    /\ UNCHANGED varsInst
    /\ UNCHANGED varsTuples
    /\ UNCHANGED varsLink
    /\ UNCHANGED varsQty
    /\ UNCHANGED varsPapers
    /\ UNCHANGED varsPipe
    /\ UNCHANGED varsFilter
    /\ UNCHANGED varsPar
    /\ UNCHANGED varsCrawl
    /\ UNCHANGED varsRender

NextTensor == Forward \/ Backward

SpecTensor == InitTensor /\ [][NextTensor]_vars

----------------------------------------------------------------------------
(* Properties of the tensor builder *)

\* the pairs of the batch, document by document, each with its document
BatchPairs ==
    Flatten([d \in 1 .. Len(all_instances) |->
                [k \in 1 .. Len(all_instances[d]) |->
                    [doc |-> d, head |-> all_instances[d][k][1],
                     tail |-> all_instances[d][k][2]]]])

\* mean of the token vectors of tokens e.start .. e.end - 1 of document d
SpanMean(d, e) ==
    [h \in 1 .. Hidden |->
        Frac(SumSeq([i \in 1 .. (e.end - e.start) |-> tokvecs[d][e.start + i][h][1]]),
             e.end - e.start)]

\* C13: relations has one row per generated pair of the batch, the documents
\* in batch order and the pairs of a document in the generator's order; row k
\* is the pooled head vector of pair k followed by its pooled tail vector; a
\* document without pairs adds no row.
C13_OneRowPerPair ==
    pc \in {"forward", "done"} =>
        /\ \A d \in 1 .. Len(docs) :
              all_instances[d] = get_instances(docs[d].ents, max_length)
        /\ Len(relations) = Len(BatchPairs)
        /\ \A k \in 1 .. Len(BatchPairs) :
              relations[k] = SpanMean(BatchPairs[k].doc, BatchPairs[k].head)
                             \o SpanMean(BatchPairs[k].doc, BatchPairs[k].tail)

\* a document without pairs between two documents with pairs
C13_Witness ==
    /\ pc = "forward"
    /\ Len(docs) = 3
    /\ all_instances[1] # <<>>
    /\ all_instances[2] = <<>>
    /\ all_instances[3] # <<>>
    /\ Len(relations) = Len(all_instances[1]) + Len(all_instances[3])

\* the span occurrences of the batch in the order of the rows of d_pooled
BatchOcc ==
    Flatten([d \in 1 .. Len(all_instances) |->
                [i \in 1 .. (2 * Len(all_instances[d])) |->
                    [doc |-> d, ent |-> EntsOf(all_instances[d])[i]]]])

\* occurrence i of occ covers token t (counted from 1) of document d
Covers(occ, i, d, t) ==
    /\ occ[i].doc = d
    /\ occ[i].ent.start < t
    /\ t <= occ[i].ent.end

\* what occurrence i gives to each of its tokens in dimension h: its half of
\* its pair's gradient row, spread over the tokens of the span
Contribution(occ, i, h) ==
    LET row == d_relations[(i + 1) \div 2]
        half == IF i % 2 = 1 THEN row[h] ELSE row[Hidden + h]
    IN  FracDivInt(half, occ[i].ent.end - occ[i].ent.start)

RECURSIVE FracSum(_)
FracSum(q) == IF q = <<>> THEN Zero ELSE FracAdd(Head(q), FracSum(Tail(q)))

\* the contributions to token t of document d in dimension h
ContributionsTo(occ, d, t, h) ==
    SelectSeq([i \in 1 .. Len(occ) |->
                  IF Covers(occ, i, d, t) THEN Contribution(occ, i, h) ELSE <<>>],
              LAMBDA c : c # <<>>)

\* C14: a token that received contributions gets their sum divided by their
\* number.
C14_MeanOfContributions ==
    pc = "done" =>
        LET occ == BatchOcc
        IN  \A d \in 1 .. Len(docs) : \A t \in 1 .. docs[d].n : \A h \in 1 .. Hidden :
                LET cs == ContributionsTo(occ, d, t, h)
                IN  cs # <<>> => d_tokvecs[d][t][h] = FracDivInt(FracSum(cs), Len(cs))

\* a token of a span of two tokens that is used in two pairs whose gradients
\* differ: the mean is neither the sum nor the sum over the span length
C14_Witness ==
    /\ pc = "done"
    /\ \E d \in 1 .. Len(docs) : \E t \in 1 .. docs[d].n :
          LET cs == ContributionsTo(BatchOcc, d, t, 1)
          IN  /\ Len(cs) = 2
              /\ cs[1] # cs[2]
              /\ \E i \in 1 .. Len(BatchOcc) :
                    /\ Covers(BatchOcc, i, d, t)
                    /\ BatchOcc[i].ent.end - BatchOcc[i].ent.start = 2
              /\ d_tokvecs[d][t][1] # FracSum(cs)
              /\ d_tokvecs[d][t][1] = FracDivInt(FracSum(cs), 2)

\* every entry of the gradient is 1
AllOnes(g) == \A k \in DOMAIN g : \A c \in DOMAIN g[k] : g[k][c] = Frac(1, 1)

\* the spans of three tokens of the only document that are in exactly one pair
LoneTriples ==
    {e \in Range(docs[1].ents) :
        /\ e.end - e.start = 3
        /\ Cardinality({i \in 1 .. Len(BatchOcc) : BatchOcc[i].ent = e}) = 1}

\* C15: in a batch of one document, with an all-ones gradient, each token of a
\* span of three tokens that is used in exactly one pair gets exactly 1/3 in
\* every dimension.
C15_RoundTripThird ==
    (pc = "done" /\ Len(docs) = 1 /\ AllOnes(d_relations)) =>
        \A e \in LoneTriples :
            \A t \in (e.start + 1) .. e.end : \A h \in 1 .. Hidden :
                d_tokvecs[1][t][h] = <<1, 3>>

C15_Witness ==
    /\ pc = "done"
    /\ Len(docs) = 1
    /\ d_relations # <<>>
    /\ AllOnes(d_relations)
    /\ \E e \in LoneTriples : d_tokvecs[1][e.start + 1] = [h \in 1 .. Hidden |-> <<1, 3>>]

\* token t (counted from 1) of document d lies in a span of a generated pair
InSomePair(occ, d, t) == \E i \in 1 .. Len(occ) : Covers(occ, i, d, t)

\* C16: backprop returns one gradient per document, of the shape of the
\* document's token vectors, and a token in no span of a generated pair has a
\* gradient of zero in every dimension.
C16_ZeroOutsideSpans ==
    pc = "done" =>
      LET occ == BatchOcc IN
        /\ Len(d_tokvecs) = Len(docs)
        /\ \A d \in 1 .. Len(docs) :
              /\ DOMAIN d_tokvecs[d] = DOMAIN tokvecs[d]
              /\ Len(d_tokvecs[d]) = docs[d].n
              /\ \A t \in 1 .. docs[d].n :
                    /\ DOMAIN d_tokvecs[d][t] = 1 .. Hidden
                    /\ ~InSomePair(occ, d, t) =>
                          \A h \in 1 .. Hidden : d_tokvecs[d][t][h] = Zero

\* C16: after the backward pass of any batch, a document with zero pairs has
\* an all-zero gradient of the shape of its token vectors.  Fails on a batch
\* in which no document has a pair: backprop raises ValueError and returns no
\* gradient at all.
C16_ZeroPairsZeroGradient ==
    pc \in {"done", "raised"} =>
      \A d \in 1 .. Len(docs) :
         all_instances[d] = <<>> =>
            /\ Len(d_tokvecs) = Len(docs)
            /\ d_tokvecs[d] = [t \in 1 .. docs[d].n |->
                                  [h \in 1 .. Hidden |-> Zero]]

\* a document whose entities are in no pair, and a document with a pair and a
\* token outside it that follows a token with a gradient
C16_Witness ==
    /\ pc = "done"
    /\ \E d \in 1 .. Len(docs) : all_instances[d] = <<>> /\ docs[d].ents # <<>>
    /\ \E d \in 1 .. Len(docs) : \E t \in 2 .. docs[d].n :
          /\ ~InSomePair(BatchOcc, d, t)
          /\ InSomePair(BatchOcc, d, t - 1)
          /\ d_tokvecs[d][t - 1][1] # Zero
          /\ d_tokvecs[d][t][1] = Zero

----------------------------------------------------------------------------
(* Compound linker: src/cprex/pubchem/linker.py *)

\* number of entities of a batch
MaxMentions == 4
\* number of direct calls of link
MaxCalls == 2

\* str.lower() on a sequence of character codes
Lower(str) ==
    [i \in DOMAIN str |-> IF str[i] >= 65 /\ str[i] <= 90 THEN str[i] + 32 ELSE str[i]]

\* compound names: "Ab", "ab", "XY", "zz"
Name_Ab == <<65, 98>>
Name_ab == <<97, 98>>
Name_XY == <<88, 89>>
Name_zz == <<122, 122>>
Names == {Name_Ab, Name_ab, Name_XY, Name_zz}

\* The compound database.  A search by name ignores letter case; compound 1 is
\* found under "ab" and under "xy"; 0 is no compound.
Resolve(name) ==
    IF Lower(name) \in {Lower(Name_Ab), Lower(Name_XY)} THEN 1 ELSE 0

\* the synonym list the database holds for a compound, in the database's
\* spelling; "xy" finds compound 1 without being one of its listed synonyms
SynonymList(cid) == <<Name_Ab>>

\* What can come back for the property query of a name: the property table,
\* a body with no table, an HTTP error status (not found, timeout, any other),
\* a failed connection, a body that is not JSON
PropertyAnswers(name) ==
    (IF Resolve(name) # 0 THEN {"Properties"} ELSE {"NotFound"})
    \cup {"Empty", "Timeout", "ServerError", "ConnectionError", "NotJSON"}

\* what can come back for the synonyms query of a name that has properties
SynonymAnswers == {"Synonyms", "Empty", "ServerError", "ConnectionError"}

\* the answers <<to the property query, to the synonyms query>> a call of
\* link for the name can meet; a query that is not sent has no answer
Answers(syns, compound) ==
    IF Lower(compound) \in DOMAIN syns THEN {<<"", "">>}
    ELSE {<<a1, "">> : a1 \in PropertyAnswers(compound) \ {"Properties"}}
         \cup {<<a1, a2>> : a1 \in PropertyAnswers(compound) \cap {"Properties"},
                            a2 \in SynonymAnswers}

\* lines 125-132 and 61-98: _rest_api_search(compound, properties) for one
\* answer of the database: the value returned, or the exception raised
\* (requests.post raises ConnectionError, raise_for_status raises HTTPError,
\* r.json() raises JSONDecodeError)
_rest_api_search(compound, answer) ==
    IF answer = "ConnectionError" THEN [exc |-> "ConnectionError", value |-> NoProps]
    ELSE IF answer \in {"NotFound", "Timeout", "ServerError"}
         THEN [exc |-> "HTTPError", value |-> NoProps]
    ELSE IF answer = "NotJSON" THEN [exc |-> "JSONDecodeError", value |-> NoProps]
    ELSE IF answer = "Empty" THEN [exc |-> "", value |-> NoProps]
    ELSE [exc |-> "", value |-> Props(Resolve(compound))]

\* dict[key] = value
SetItem(dict, key, value) ==
    [k \in DOMAIN dict \cup {key} |-> IF k = key THEN value ELSE dict[k]]

RECURSIVE CacheSynonyms(_, _, _)
\* lines 51-52: for synonym in synonyms["Synonym"]: _synonyms[synonym.lower()] = cid
CacheSynonyms(syns, list, cid) ==
    IF list = <<>> THEN syns
    ELSE CacheSynonyms(SetItem(syns, Lower(Head(list)), cid), Tail(list), cid)

\* outcome of a call of link: the value returned or the exception raised, the
\* caches afterwards, the queries sent
Outcome(ret, exc, syns, props, queries) ==
    [ret |-> ret, exc |-> exc, _synonyms |-> syns, _properties |-> props,
     sent |-> queries]

\* lines 39-40: the name is a cached synonym
CacheHit(syns, compound) == Lower(compound) \in DOMAIN syns

\* line 54: which exceptions the except clause catches
Caught(exc) == exc = "HTTPError"

\* lines 54-59: the except clause logs, and link returns None
HandleHTTPErrorMutant(syns, props, queries) ==
    Outcome(NoProps, "", SetItem(syns, Lower(queries[1].name), 0), props, queries)

HandleHTTPError(syns, props, queries) == Outcome(NoProps, "", syns, props, queries)

\* lines 49-53: the synonyms query and what follows it
LinkSynonyms(syns, props, compound, record, q1, a2) ==
    LET synonyms == _rest_api_search(compound, a2)
        queries == <<q1, [name |-> compound, kind |-> "synonyms", answer |-> a2]>>
    IN  IF Caught(synonyms.exc)
        THEN HandleHTTPError(syns, props, queries)
        ELSE IF synonyms.exc # ""
        THEN Outcome(NoProps, synonyms.exc, syns, props, queries)
        ELSE IF ~synonyms.value.none
        THEN Outcome(record, "",
                     CacheSynonyms(syns, SynonymList(synonyms.value.CID), record.CID),
                     props, queries)
        ELSE Outcome(record, "", syns, props, queries)

\* lines 39-59: link(compound), a1 and a2 being the database's answers to the
\* property query and to the synonyms query
linkMutant(syns, props, compound, a1, a2) ==
    LET found == _rest_api_search(compound, a1)
        q1 == [name |-> compound, kind |-> "property", answer |-> a1]
    IN  IF Caught(found.exc) THEN HandleHTTPError(syns, props, <<q1>>)
        ELSE IF found.exc # "" THEN Outcome(NoProps, found.exc, syns, props, <<q1>>)
        ELSE IF found.value.none THEN Outcome(NoProps, "", syns, props, <<q1>>)
        ELSE LinkSynonyms(syns, SetItem(props, found.value.CID, found.value),
                          compound, found.value, q1, a2)

link(syns, props, compound, a1, a2) ==
    IF CacheHit(syns, compound)
    THEN IF syns[Lower(compound)] \in DOMAIN props
         THEN Outcome(props[syns[Lower(compound)]], "", syns, props, <<>>)
         ELSE Outcome(NoProps, "KeyError", syns, props, <<>>)
    ELSE LET found == _rest_api_search(compound, a1)
             q1 == [name |-> compound, kind |-> "property", answer |-> a1]
         IN  IF Caught(found.exc) THEN HandleHTTPError(syns, props, <<q1>>)
             ELSE IF found.exc # "" THEN Outcome(NoProps, found.exc, syns, props, <<q1>>)
             ELSE IF found.value.none THEN Outcome(NoProps, "", syns, props, <<q1>>)
             ELSE LinkSynonyms(syns, SetItem(props, found.value.CID, found.value),
                               compound, found.value, q1, a2)

\* an entity of the batch: ent.label_ and ent.text
Mention(label, text) == [label |-> label, text |-> text]

MentionKinds ==
    {Mention("CHEM", Name_Ab), Mention("CHEM", Name_ab), Mention("CHEM", Name_zz),
     Mention("PROP", Name_Ab)}

\* the entities of the docs of a call, document after document
MentionBatches == UNION {[1 .. n -> MentionKinds] : n \in 0 .. MaxMentions}

\* link_compounds is called with the default min_occurences or with 2
MinOccurences == {DefaultMinOccurences, 2}

\* lines 141-145: the texts of the CHEM entities
chems(b) ==
    LET kept == SelectSeq(b, LAMBDA ent : ent.label = "CHEM")
    IN  [i \in DOMAIN kept |-> kept[i].text]

RECURSIVE Distinct(_)
\* the keys of a Counter: the distinct elements in order of first occurrence
Distinct(q) ==
    IF q = <<>> THEN <<>>
    ELSE <<Head(q)>> \o Distinct(SelectSeq(Tail(q), LAMBDA x : x # Head(q)))

\* line 149: Counter(chems).items()
Counter(q) ==
    [i \in DOMAIN Distinct(q) |->
        [compound |-> Distinct(q)[i],
         occurence |-> Len(SelectSeq(q, LAMBDA x : x = Distinct(q)[i]))]]

\* line 152: occurence >= min_occurences
QualifiesForLookup(occurence, m) == occurence >= m

\* line 158: "for doc in docs", the second loop over docs.  A list is walked
\* again; an iterator or generator (what nlp.pipe returns) was exhausted by
\* the loop of line 140 and yields nothing more.  The entities of b, by
\* position, that the loop visits.
SecondPass(b, one_shot) == IF one_shot THEN {} ELSE DOMAIN b

\* lines 158-161: ent._.props of every entity after the call, when the loop
\* visits the entities at the positions in visited
SetEntProps(b, props, visited) ==
    [i \in DOMAIN b |->
        IF i \in visited /\ b[i].label = "CHEM" /\ b[i].text \in DOMAIN props
        THEN props[b[i].text] ELSE NoProps]

----------------------------------------------------------------------------
(* Specification of the linker *)

InitLink ==
    /\ pc = "idle"
    /\ ents = <<>>
    /\ IdleInst
    /\ IdleTuples
    /\ IdleTensor
    /\ IdleLink
    /\ IdleQty
    /\ IdlePapers
    /\ IdlePipe
    /\ IdleFilter
    /\ IdlePar
    /\ IdleCrawl
    /\ IdleRender

\* no call is running; a run ends with the call of link_compounds
Ready == pc \in {"idle", "link returned", "link raised"}

\* LINKER.link(compound), called directly
LinkCall ==
    /\ Ready
    /\ ncalls < MaxCalls
    /\ \E compound \in Names : \E a \in Answers(_synonyms, compound) :
          LET a1 == a[1]
              r == link(_synonyms, _properties, compound, a[1], a[2])
          IN  /\ _synonyms' = r._synonyms
              /\ _properties' = r._properties
              /\ sent' = r.sent
              /\ looked' = <<compound>>
              /\ returned' = r.ret
              /\ pc' = IF r.exc = "" THEN "link returned" ELSE "link raised"
              /\ not_found' = IF r.sent # <<>> /\ a1 = "NotFound"
                              THEN not_found \cup {compound} ELSE not_found
    /\ ncalls' = ncalls + 1
    /\ batch' = <<>>
    /\ min_occurences' = DefaultMinOccurences
    /\ occurences' = <<>>
    /\ pos' = 0
    /\ properties' = <<>>
    /\ ent_props' = <<>>
    /\ UNCHANGED <<ents>>
    /\ UNCHANGED varsInst
    /\ UNCHANGED varsTuples
    /\ UNCHANGED varsTensor
    /\ UNCHANGED varsQty
    /\ UNCHANGED varsPapers
    /\ UNCHANGED varsPipe
    /\ UNCHANGED varsFilter
    /\ UNCHANGED varsPar
    /\ UNCHANGED varsCrawl
    /\ UNCHANGED varsRender

\* lines 138-149: link_compounds(docs, min_occurences) up to the loop
LinkCompounds ==
    /\ Ready
    /\ \E b \in MentionBatches : \E m \in MinOccurences :
          /\ batch' = b
          /\ min_occurences' = m
          /\ occurences' = Counter(chems(b))
          /\ ent_props' = [i \in DOMAIN b |-> NoProps]
    /\ pos' = 1
    /\ properties' = <<>>
    /\ looked' = <<>>
    /\ sent' = <<>>
    /\ returned' = NoProps
    /\ pc' = "loop"
    /\ UNCHANGED <<ents, _synonyms, _properties, ncalls, not_found>>
    /\ UNCHANGED varsInst
    /\ UNCHANGED varsTuples
    /\ UNCHANGED varsTensor
    /\ UNCHANGED varsQty
    /\ UNCHANGED varsPapers
    /\ UNCHANGED varsPipe
    /\ UNCHANGED varsFilter
    /\ UNCHANGED varsPar
    /\ UNCHANGED varsCrawl
    /\ UNCHANGED varsRender

\* lines 150-155: one item of occurences.items()
LookUp ==
    /\ pc = "loop"
    /\ pos <= Len(occurences)
    /\ LET compound == occurences[pos].compound
           occurence == occurences[pos].occurence
       IN  IF QualifiesForLookup(occurence, min_occurences)
           THEN \E a \in Answers(_synonyms, compound) :
                   LET a1 == a[1]
                       r == link(_synonyms, _properties, compound, a[1], a[2])
                   IN  /\ _synonyms' = r._synonyms
                       /\ _properties' = r._properties
                       /\ sent' = sent \o r.sent
                       /\ looked' = Append(looked, compound)
                       /\ returned' = r.ret
                       /\ not_found' = IF r.sent # <<>> /\ a1 = "NotFound"
                                       THEN not_found \cup {compound} ELSE not_found
                       /\ IF r.exc # ""
                          THEN /\ pc' = "raised"
                               /\ UNCHANGED <<pos, properties>>
                          ELSE /\ pc' = "loop"
                               /\ pos' = pos + 1
                               /\ properties' = IF r.ret.none THEN properties
                                                ELSE SetItem(properties, compound, r.ret)
           ELSE /\ pos' = pos + 1
                /\ UNCHANGED <<pc, _synonyms, _properties, sent, looked, returned,
                               not_found, properties>>
    /\ UNCHANGED <<ents, batch, min_occurences, occurences, ent_props, ncalls>>
    /\ UNCHANGED varsInst
    /\ UNCHANGED varsTuples
    /\ UNCHANGED varsTensor
    /\ UNCHANGED varsQty
    /\ UNCHANGED varsPapers
    /\ UNCHANGED varsPipe
    /\ UNCHANGED varsFilter
    /\ UNCHANGED varsPar
    /\ UNCHANGED varsCrawl
    /\ UNCHANGED varsRender

\* lines 157-163: the entities get their properties, properties is returned.
\* docs is an Iterable[Doc] (line 138): a list, or a one-shot iterator, which
\* makes no difference before line 158.  ent._.props is a custom attribute of
\* Span: the assignment of line 161 raises AttributeError unless the
\* extension "props" has been registered, and no module under src/ registers
\* it, so the first entity to annotate either ends the call with the
\* exception or, in a process that registered the extension, is annotated
\* like the others.
SetProps ==
    /\ pc = "loop"
    /\ pos > Len(occurences)
    /\ \E one_shot, registered \in BOOLEAN :
          LET visited == SecondPass(batch, one_shot)
          IN  IF registered
                 \/ \A i \in visited :
                       ~(batch[i].label = "CHEM" /\ batch[i].text \in DOMAIN properties)
              THEN /\ ent_props' = SetEntProps(batch, properties, visited)
                   /\ pc' = "returned"
              ELSE /\ ent_props' = ent_props
                   /\ pc' = "raised"
    /\ UNCHANGED <<ents, _synonyms, _properties, batch, min_occurences, occurences,
                   pos, properties, looked, sent, returned, ncalls, not_found>>
    /\ UNCHANGED varsInst
    /\ UNCHANGED varsTuples
    /\ UNCHANGED varsTensor
    /\ UNCHANGED varsQty
    /\ UNCHANGED varsPapers
    /\ UNCHANGED varsPipe
    /\ UNCHANGED varsFilter
    /\ UNCHANGED varsPar
    /\ UNCHANGED varsCrawl
    /\ UNCHANGED varsRender

NextLink == LinkCall \/ LinkCompounds \/ LookUp \/ SetProps

SpecLink == InitLink /\ [][NextLink]_vars

----------------------------------------------------------------------------
(* Properties of the linker *)

\* this step is a call of link: a direct one, or one made by link_compounds
LinkStep ==
    \/ ncalls' = ncalls + 1
    \/ pc = "loop" /\ Len(looked') = Len(looked) + 1

\* the name the call of this step is about
LinkArg == looked'[Len(looked')]

\* the outbound queries of the call of this step
LinkQueries == IF pc = "loop" THEN SubSeq(sent', Len(sent) + 1, Len(sent')) ELSE sent'

\* the call of this step ended with an exception
LinkRaised == pc' \in {"link raised", "raised"}

\* C17: once a call of link got the synonym list, every listed synonym is
\* cached lower-cased and stays cached; a call whose name is a cached synonym
\* in any letter case returns the cached property record, sends no query and
\* leaves the caches alone.
C17_CacheHit ==
    [][/\ DOMAIN _synonyms \subseteq DOMAIN _synonyms'
       /\ LinkStep =>
            /\ (LinkQueries # <<>> /\ LinkQueries[Len(LinkQueries)].answer = "Synonyms")
                  => /\ ~returned'.none
                     /\ \A i \in DOMAIN SynonymList(returned'.CID) :
                           /\ Lower(SynonymList(returned'.CID)[i]) \in DOMAIN _synonyms'
                           /\ _synonyms'[Lower(SynonymList(returned'.CID)[i])] = returned'.CID
            /\ Lower(LinkArg) \in DOMAIN _synonyms
                  => /\ LinkQueries = <<>>
                     /\ ~LinkRaised
                     /\ ~returned'.none
                     /\ returned' = _properties[_synonyms[Lower(LinkArg)]]
                     /\ returned'.CID = Resolve(LinkArg)
                     /\ UNCHANGED varsCache]_vars

\* the second direct call asks for "ab", which the first call cached from the
\* database's spelling "Ab"; it is answered from the cache
C17_Witness ==
    /\ pc = "link returned"
    /\ ncalls = 2
    /\ looked = <<Name_ab>>
    /\ sent = <<>>
    /\ returned = Props(1)
    /\ Name_ab \in DOMAIN _synonyms
    /\ Name_Ab \notin DOMAIN _synonyms

\* C18: a call of link that is answered "not found" returns None and leaves
\* both caches as they were, and every later call of link for a name that was
\* answered "not found" sends a query again.
C18_NotFoundNotCached ==
    [][LinkStep =>
          /\ (LinkQueries # <<>> /\ LinkQueries[1].answer = "NotFound")
                => /\ returned'.none
                   /\ ~LinkRaised
                   /\ UNCHANGED varsCache
                   /\ LinkArg \in not_found'
          /\ LinkArg \in not_found
                => /\ LinkQueries # <<>>
                   /\ LinkQueries[1].name = LinkArg]_vars

\* "zz" was answered "not found" by the first direct call; the second direct
\* call for it sent a query again (this one timed out)
C18_Witness ==
    /\ pc = "link returned"
    /\ ncalls = 2
    /\ Name_zz \in not_found
    /\ looked = <<Name_zz>>
    /\ sent = <<[name |-> Name_zz, kind |-> "property", answer |-> "Timeout"]>>
    /\ returned.none
    /\ _synonyms = <<>>
    /\ _properties = <<>>

\* the names link_compounds has to look up: the distinct CHEM texts with at
\* least min_occurences occurrences
Frequent ==
    {batch[i].text : i \in {i \in DOMAIN batch :
        /\ batch[i].label = "CHEM"
        /\ Cardinality({j \in DOMAIN batch :
                           batch[j].label = "CHEM" /\ batch[j].text = batch[i].text})
              >= min_occurences}}

\* every name was looked up at most once, every query is about the name of a
\* lookup, and no query was sent twice
NoRetry ==
    /\ \A i, j \in DOMAIN looked : looked[i] = looked[j] => i = j
    /\ \A i \in DOMAIN sent : sent[i].name \in Range(looked)
    /\ \A i, j \in DOMAIN sent :
          (sent[i].name = sent[j].name /\ sent[i].kind = sent[j].kind) => i = j

\* C19: no failure of a lookup leaves link or link_compounds as an exception;
\* link_compounds returns with every frequent name looked up, no query sent
\* twice, and the entities of a name whose lookup failed unlinked.
C19_FailureNeverPropagates ==
    /\ pc \notin {"link raised", "raised"}
    /\ pc = "returned" =>
          /\ Range(looked) = Frequent
          /\ NoRetry
          /\ \A i \in DOMAIN batch :
                batch[i].text \notin DOMAIN properties => ent_props[i].none

\* C20: when a call of link_compounds has ended, the names it looked up are
\* the frequent names, each once, and it sent no query about any other name.
C20_LookupIffFrequent ==
    pc \in {"returned", "raised"} =>
        /\ Range(looked) = Frequent
        /\ Len(looked) = Cardinality(Frequent)
        /\ \A i \in DOMAIN sent : sent[i].name \in Frequent

\* the same for the calls that returned
C20_OnReturn ==
    pc = "returned" =>
        /\ Range(looked) = Frequent
        /\ Len(looked) = Cardinality(Frequent)
        /\ \A i \in DOMAIN sent : sent[i].name \in Frequent

\* the answers the running call of link_compounds got for the name
AnswersTo(name, kind) ==
    {sent[i].answer : i \in {i \in DOMAIN sent :
                                sent[i].name = name /\ sent[i].kind = kind}}

\* the lookup of the name succeeded in the running call of link_compounds:
\* it was answered from the cache, or its property query was answered with
\* the property table and its synonyms query did not fail
ResolvedInCall(name) ==
    /\ name \in Range(looked)
    /\ \/ \A i \in DOMAIN sent : sent[i].name # name
       \/ /\ AnswersTo(name, "property") = {"Properties"}
          /\ AnswersTo(name, "synonyms") \subseteq {"Synonyms", "Empty"}

\* C21: when link_compounds has returned, every CHEM entity of the batch
\* whose text was resolved carries the property record of that name, and no
\* other entity carries one.  Fails when docs is a one-shot iterator: the
\* call returns and no entity is annotated.
C21_AllOccurrencesAnnotated ==
    pc = "returned" =>
        \A i \in DOMAIN batch :
            IF batch[i].label = "CHEM" /\ ResolvedInCall(batch[i].text)
            THEN ent_props[i] = Props(Resolve(batch[i].text))
            ELSE ent_props[i].none

\* when link_compounds has returned, the entities are annotated as C21 says,
\* or none of them is annotated
C21_AllOrNothing ==
    pc = "returned" =>
        \/ \A i \in DOMAIN batch :
              IF batch[i].label = "CHEM" /\ ResolvedInCall(batch[i].text)
              THEN ent_props[i] = Props(Resolve(batch[i].text))
              ELSE ent_props[i].none
        \/ \A i \in DOMAIN batch : ent_props[i].none

\* two CHEM occurrences of a resolved name are annotated, a PROP entity of
\* the same text and a CHEM entity of another name are not
C21_Witness ==
    /\ pc = "returned"
    /\ \E i, j, k, l \in DOMAIN batch :
          /\ i # j
          /\ batch[i] = Mention("CHEM", Name_Ab) /\ ~ent_props[i].none
          /\ batch[j] = Mention("CHEM", Name_Ab) /\ ~ent_props[j].none
          /\ batch[k] = Mention("PROP", Name_Ab) /\ ent_props[k].none
          /\ batch[l].label = "CHEM" /\ batch[l].text # Name_Ab /\ ent_props[l].none

\* C28: a call of link that returns None leaves _synonyms and _properties as
\* they were before the call.
C28_NoneLeavesCachesAlone ==
    [][(LinkStep /\ ~LinkRaised /\ returned'.none) => UNCHANGED varsCache]_vars

----------------------------------------------------------------------------
(* Quantities NER component: src/cprex/ner/quantities.py *)

\* number of tokens of the doc
MaxQTok == 3
\* number of measurements in an answer of the quantities service
MaxMeasures == 2

\* entity.label is None
NoLabel == "None"

\* GrobidEntity(start, end, label), start and end being character offsets
GrobidEntity(start, end, label) == [start |-> start, end |-> end, label |-> label]

\* a measurement of the service's answer: whether it has "measurementOffsets",
\* its offsets (as fix_grobid_qty_offset_for_special_chars returns them) and
\* the label its quantity gives, NoLabel if it gives none
Measure(offsets, start, end, label) ==
    [offsets |-> offsets, start |-> start, end |-> end, label |-> label]

\* lines 15-61: parse_grobid_measure(measure, doc_text)
parse_grobid_measure(measure) ==
    IF ~measure.offsets THEN GrobidEntity(-1, -1, NoLabel)
    ELSE GrobidEntity(measure.start, measure.end, measure.label)

\* token.idx: every token is one character and is followed by one space
TokenIdx(i) == 2 * i

\* the first token of the doc at or after character offset c, -1 if none
FirstTokenFrom(n, c) ==
    IF \E i \in 0 .. (n - 1) : TokenIdx(i) >= c
    THEN CHOOSE i \in 0 .. (n - 1) :
            TokenIdx(i) >= c /\ \A j \in 0 .. (i - 1) : TokenIdx(j) < c
    ELSE -1

\* lines 86-104: get_token_index_from_label_positions(doc, start, end); -1 is None
get_token_index_from_label_positions(n, start, end) ==
    [tstart |-> FirstTokenFrom(n, start),
     tend   |-> IF FirstTokenFrom(n, end) = -1 THEN (n - 1) + 1
                ELSE FirstTokenFrom(n, end)]

\* line 143: any(t.ent_type for t in doc[start:end])
AnyEntType(es, start, end) ==
    \E t \in start .. (end - 1) : \E k \in DOMAIN es :
        es[k].start <= t /\ t < es[k].end

\* lines 141-146: the measurement is skipped because of its tokens
ClaimedMutant(es, claimed, start, end) ==
    AnyEntType(es, start, end)

Claimed(es, claimed, start, end) ==
    \/ AnyEntType(es, start, end)
    \/ (claimed \cap (start .. (end - 1))) # {}

\* lines 125-149: the body of "for measurement in measurements"
MeasureBody(st, n, es, measurement) ==
    LET entity == parse_grobid_measure(measurement)
        tok == get_token_index_from_label_positions(n, entity.start, entity.end)
        start == tok.tstart
        end == tok.tend
    IN  IF entity.label = NoLabel THEN st
        ELSE IF start = -1 THEN st
        ELSE IF Claimed(es, st.new_tokens, start, end) THEN st
        ELSE [new_tokens |-> st.new_tokens \cup (start .. (end - 1)),
              doc_ents   |-> Append(st.doc_ents, LongSpan(start, end, entity.label))]

\* two spans share a token
Overlap(e1, e2) == \E t \in e1.start .. (e1.end - 1) : e2.start <= t /\ t < e2.end

RECURSIVE SortByStart(_)
SortByStart(spans) ==
    IF spans = <<>> THEN <<>>
    ELSE LET k == CHOOSE k \in DOMAIN spans :
                     \A j \in DOMAIN spans : spans[k].start <= spans[j].start
         IN  <<spans[k]>>
             \o SortByStart(SubSeq(spans, 1, k - 1) \o SubSeq(spans, k + 1, Len(spans)))

\* line 151: the setter of doc.ents writes the entity annotation of the tokens
\* and refuses spans that share a token; reading doc.ents back gives the
\* spans of at least one token in token order
SetDocEnts(spans) ==
    IF \E i, j \in DOMAIN spans : i # j /\ Overlap(spans[i], spans[j])
    THEN [raised |-> TRUE, ents |-> <<>>]
    ELSE [raised |-> FALSE,
          ents |-> SortByStart(SelectSeq(spans, LAMBDA e : e.start < e.end))]

\* the answers of the quantities service for a doc of n tokens: measurements
\* of one to three characters with a label, one without a label, one without
\* offsets
MeasureKinds(n) ==
    {Measure(TRUE, s, e, "MASS") :
        <<s, e>> \in {q \in (0 .. (2 * n - 2)) \X (1 .. (2 * n - 1)) :
                        q[1] < q[2] /\ q[2] - q[1] <= 3}}
    \cup {Measure(TRUE, 0, 1, NoLabel), Measure(FALSE, 0, 0, NoLabel)}

MeasureLists(n) == UNION {[1 .. k -> MeasureKinds(n)] : k \in 0 .. MaxMeasures}

\* (status_code, response) of client.process_text
Responses(n) ==
    {[status_code |-> 200, has_measurements |-> TRUE, measurements |-> ms] :
        ms \in MeasureLists(n)}
    \cup {[status_code |-> 200, has_measurements |-> FALSE, measurements |-> <<>>],
          [status_code |-> 500, has_measurements |-> FALSE, measurements |-> <<>>]}

\* the docs the component is handed: the entities of the earlier stages
QtyDocs ==
    {d \in DocsOfLen(MaxQTok) : \A k \in DOMAIN d.ents : d.ents[k].label = "CHEM"}

----------------------------------------------------------------------------
(* Specification of the quantities NER component *)

InitQty ==
    /\ pc = "start"
    /\ \E d \in QtyDocs : ents = d.ents /\ ntok = d.n
    /\ response = <<>>
    /\ m_pos = 0
    /\ doc_ents = <<>>
    /\ new_tokens = {}
    /\ IdleInst
    /\ IdleTuples
    /\ IdleTensor
    /\ IdleLink
    /\ IdlePapers
    /\ IdlePipe
    /\ IdleFilter
    /\ IdlePar
    /\ IdleCrawl
    /\ IdleRender

\* lines 116-123: the service is asked
ProcessText ==
    /\ pc = "start"
    /\ \E r \in Responses(ntok) : response' = r
    /\ m_pos' = 1
    /\ pc' = "measure"
    /\ UNCHANGED <<ents, ntok, doc_ents, new_tokens>>
    /\ UNCHANGED varsInst
    /\ UNCHANGED varsTuples
    /\ UNCHANGED varsTensor
    /\ UNCHANGED varsLink
    /\ UNCHANGED varsPapers
    /\ UNCHANGED varsPipe
    /\ UNCHANGED varsFilter
    /\ UNCHANGED varsPar
    /\ UNCHANGED varsCrawl
    /\ UNCHANGED varsRender

\* the measurements the loop runs over (line 122)
Measurements ==
    IF response.status_code = 200 /\ response.has_measurements
    THEN response.measurements ELSE <<>>

\* lines 125-149: one measurement
MeasureStep ==
    /\ pc = "measure"
    /\ m_pos <= Len(Measurements)
    /\ LET st == MeasureBody([new_tokens |-> new_tokens, doc_ents |-> doc_ents],
                             ntok, ents, Measurements[m_pos])
       IN  /\ new_tokens' = st.new_tokens
           /\ doc_ents' = st.doc_ents
    /\ m_pos' = m_pos + 1
    /\ UNCHANGED <<pc, ents, ntok, response>>
    /\ UNCHANGED varsInst
    /\ UNCHANGED varsTuples
    /\ UNCHANGED varsTensor
    /\ UNCHANGED varsLink
    /\ UNCHANGED varsPapers
    /\ UNCHANGED varsPipe
    /\ UNCHANGED varsFilter
    /\ UNCHANGED varsPar
    /\ UNCHANGED varsCrawl
    /\ UNCHANGED varsRender

\* lines 151-152: doc.ents = list(doc.ents) + doc_ents
AssignEnts ==
    /\ pc = "measure"
    /\ m_pos > Len(Measurements)
    /\ LET set == SetDocEnts(ents \o doc_ents)
       IN  IF set.raised THEN pc' = "raised" /\ ents' = ents
           ELSE pc' = "done" /\ ents' = set.ents
    /\ UNCHANGED <<ntok, response, m_pos, doc_ents, new_tokens>>
    /\ UNCHANGED varsInst
    /\ UNCHANGED varsTuples
    /\ UNCHANGED varsTensor
    /\ UNCHANGED varsLink
    /\ UNCHANGED varsPapers
    /\ UNCHANGED varsPipe
    /\ UNCHANGED varsFilter
    /\ UNCHANGED varsPar
    /\ UNCHANGED varsCrawl
    /\ UNCHANGED varsRender

NextQty == ProcessText \/ MeasureStep \/ AssignEnts

SpecQty == InitQty /\ [][NextQty]_vars

\* tokens of a span
TokensOf(e) == e.start .. (e.end - 1)

\* C22: a measurement whose tokens hold a token of an entity of an earlier
\* stage, or of a quantity span accepted earlier in the call, is not accepted;
\* the entities of the doc never share a token, the call does not fail, and
\* every entity of the earlier stages is still an entity after the call.
C22_NoTokenClaimedTwice ==
    [][/\ pc' # "raised"
       /\ \A i, j \in DOMAIN ents' : i # j => ~Overlap(ents'[i], ents'[j])
       /\ Range(ents) \subseteq Range(ents')
       /\ (pc = "measure" /\ m_pos <= Len(Measurements)) =>
             \A e \in Range(doc_ents') \ Range(doc_ents) :
                /\ \A k \in DOMAIN ents : TokensOf(e) \cap TokensOf(ents[k]) = {}
                /\ \A k \in DOMAIN doc_ents : TokensOf(e) \cap TokensOf(doc_ents[k]) = {}
       /\ pc' = "done" => Range(ents') \ Range(ents) =
                             {e \in Range(doc_ents) : TokensOf(e) # {}}]_vars

\* the call is over; one measurement was accepted, one was skipped for an
\* entity of an earlier stage, one for a quantity accepted before it
C22_Witness ==
    /\ pc = "done"
    /\ Len(response.measurements) >= 2
    /\ Len(doc_ents) = 1
    /\ \E k \in DOMAIN ents : ents[k].label = "CHEM"
    /\ \E k \in DOMAIN ents : ents[k].label = "MASS"
    /\ \E m \in DOMAIN response.measurements :
          LET ms == response.measurements[m]
              tok == get_token_index_from_label_positions(ntok, ms.start, ms.end)
          IN  /\ ms.label = "MASS"
              /\ tok.tstart # -1
              /\ \E k \in DOMAIN ents :
                    /\ ents[k].label = "MASS"
                    /\ (tok.tstart .. (tok.tend - 1)) \cap TokensOf(ents[k]) # {}
                    /\ LongSpan(tok.tstart, tok.tend, "MASS") # ents[k]

----------------------------------------------------------------------------
(* Pipeline construction: get_pipeline of src/cprex/pipeline.py *)

\* line 35: the pipeline of spacy.load("en_core_web_sm", disable=["ner"])
BasePipeline == <<"tok2vec", "tagger", "parser", "attribute_ruler", "lemmatizer">>

\* lines 62-69: the custom attributes of Doc that get_pipeline sets
DocExtensions == {"title", "doi", "section", "rel"}

\* nlp.add_pipe(factory, name, after=after): the component goes right after
\* the component named after, at the end if after is "" (last=True or no
\* position)
add_pipe_mutant(pipeline, name, after) ==
    <<name>> \o pipeline

add_pipe(pipeline, name, after) ==
    IF after = "" THEN Append(pipeline, name)
    ELSE LET k == CHOOSE k \in DOMAIN pipeline : pipeline[k] = after
         IN  SubSeq(pipeline, 1, k) \o <<name>> \o SubSeq(pipeline, k + 1, Len(pipeline))

\* lines 42-56
AddNerPipelines(pipeline) ==
    add_pipe(add_pipe(add_pipe(pipeline, "ChemNER", ""),
                      "QuantitiesNER", "ChemNER"),
             "entity_ruler", "QuantitiesNER")

\* lines 71-75
AddRelPipeline(pipeline) ==
    add_pipe(add_pipe(pipeline, "transformer", ""), "relation_extractor", "")

----------------------------------------------------------------------------
(* Specification of the pipeline construction *)

InitPipe ==
    /\ pc = "call"
    /\ ents = <<>>
    /\ kwargs \in [enable_ner_pipelines : BOOLEAN, enable_rel_pipeline : BOOLEAN,
                   detect_abbreviations : BOOLEAN]
    /\ nlp = <<>>
    /\ extensions \in SUBSET DocExtensions
    /\ IdleInst
    /\ IdleTuples
    /\ IdleTensor
    /\ IdleLink
    /\ IdleQty
    /\ IdlePapers
    /\ IdleFilter
    /\ IdlePar
    /\ IdleCrawl
    /\ IdleRender

\* lines 35-40
LoadModel ==
    /\ pc = "call"
    /\ nlp' = BasePipeline
    /\ pc' = "ner"
    /\ UNCHANGED <<ents, kwargs, extensions>>
    /\ UNCHANGED varsInst
    /\ UNCHANGED varsTuples
    /\ UNCHANGED varsTensor
    /\ UNCHANGED varsLink
    /\ UNCHANGED varsQty
    /\ UNCHANGED varsPapers
    /\ UNCHANGED varsFilter
    /\ UNCHANGED varsPar
    /\ UNCHANGED varsCrawl
    /\ UNCHANGED varsRender

\* lines 42-56
NerPipelines ==
    /\ pc = "ner"
    /\ nlp' = IF kwargs.enable_ner_pipelines THEN AddNerPipelines(nlp) ELSE nlp
    /\ pc' = "abbreviations"
    /\ UNCHANGED <<ents, kwargs, extensions>>
    /\ UNCHANGED varsInst
    /\ UNCHANGED varsTuples
    /\ UNCHANGED varsTensor
    /\ UNCHANGED varsLink
    /\ UNCHANGED varsQty
    /\ UNCHANGED varsPapers
    /\ UNCHANGED varsFilter
    /\ UNCHANGED varsPar
    /\ UNCHANGED varsCrawl
    /\ UNCHANGED varsRender

\* lines 58-59
Abbreviations ==
    /\ pc = "abbreviations"
    /\ nlp' = IF kwargs.detect_abbreviations
              THEN add_pipe(nlp, "abbreviation_detector", "") ELSE nlp
    /\ pc' = "extensions"
    /\ UNCHANGED <<ents, kwargs, extensions>>
    /\ UNCHANGED varsInst
    /\ UNCHANGED varsTuples
    /\ UNCHANGED varsTensor
    /\ UNCHANGED varsLink
    /\ UNCHANGED varsQty
    /\ UNCHANGED varsPapers
    /\ UNCHANGED varsFilter
    /\ UNCHANGED varsPar
    /\ UNCHANGED varsCrawl
    /\ UNCHANGED varsRender

\* lines 61-69
SetExtensions ==
    /\ pc = "extensions"
    /\ extensions' = extensions \cup DocExtensions
    /\ pc' = "rel"
    /\ UNCHANGED <<ents, kwargs, nlp>>
    /\ UNCHANGED varsInst
    /\ UNCHANGED varsTuples
    /\ UNCHANGED varsTensor
    /\ UNCHANGED varsLink
    /\ UNCHANGED varsQty
    /\ UNCHANGED varsPapers
    /\ UNCHANGED varsFilter
    /\ UNCHANGED varsPar
    /\ UNCHANGED varsCrawl
    /\ UNCHANGED varsRender

\* lines 71-77
RelPipeline ==
    /\ pc = "rel"
    /\ nlp' = IF kwargs.enable_rel_pipeline THEN AddRelPipeline(nlp) ELSE nlp
    /\ pc' = "returned"
    /\ UNCHANGED <<ents, kwargs, extensions>>
    /\ UNCHANGED varsInst
    /\ UNCHANGED varsTuples
    /\ UNCHANGED varsTensor
    /\ UNCHANGED varsLink
    /\ UNCHANGED varsQty
    /\ UNCHANGED varsPapers
    /\ UNCHANGED varsFilter
    /\ UNCHANGED varsPar
    /\ UNCHANGED varsCrawl
    /\ UNCHANGED varsRender

NextPipe == LoadModel \/ NerPipelines \/ Abbreviations \/ SetExtensions \/ RelPipeline

SpecPipe == InitPipe /\ [][NextPipe]_vars

\* the names of a pipeline among those of a list, in pipeline order
Among(pipeline, names) == SelectSeq(pipeline, LAMBDA n : n \in Range(names))

NerNames == <<"ChemNER", "QuantitiesNER", "entity_ruler">>
RelNames == <<"transformer", "relation_extractor">>

\* position of a name in a pipeline
IndexOf(pipeline, name) == CHOOSE k \in DOMAIN pipeline : pipeline[k] = name

\* C24 (as stated): the returned pipeline has the three NER components, in
\* that order, exactly when enable_ner_pipelines is true; transformer and
\* relation_extractor exactly when enable_rel_pipeline is true, after the NER
\* components; with both flags false it is the base pipeline.
C24_FlagsDecidePipeline ==
    pc = "returned" =>
        /\ Among(nlp, NerNames) = IF kwargs.enable_ner_pipelines THEN NerNames ELSE <<>>
        /\ Among(nlp, RelNames) = IF kwargs.enable_rel_pipeline THEN RelNames ELSE <<>>
        /\ \A a \in Range(Among(nlp, NerNames)) : \A b \in Range(Among(nlp, RelNames)) :
              IndexOf(nlp, a) < IndexOf(nlp, b)
        /\ (~kwargs.enable_ner_pipelines /\ ~kwargs.enable_rel_pipeline) =>
              nlp = BasePipeline

\* C24 (amended): the returned pipeline is the base pipeline, then the three
\* NER components if enable_ner_pipelines, then abbreviation_detector if
\* detect_abbreviations, then transformer and relation_extractor if
\* enable_rel_pipeline; it is the base pipeline when the three flags are false.
C24_PipelineOrder ==
    pc = "returned" =>
        nlp = BasePipeline
              \o (IF kwargs.enable_ner_pipelines THEN NerNames ELSE <<>>)
              \o (IF kwargs.detect_abbreviations THEN <<"abbreviation_detector">> ELSE <<>>)
              \o (IF kwargs.enable_rel_pipeline THEN RelNames ELSE <<>>)

\* get_pipeline returned with the two flags of the claim false and
\* detect_abbreviations true
C24_Witness ==
    /\ pc = "returned"
    /\ ~kwargs.enable_ner_pipelines
    /\ ~kwargs.enable_rel_pipeline
    /\ kwargs.detect_abbreviations
    /\ nlp = Append(BasePipeline, "abbreviation_detector")

----------------------------------------------------------------------------
(* Doc filter: prop_matches_quantity and filter_doc of src/cprex/corpus/corpus.py *)

\* line 46: [ent.ent_id_ for ent in doc.ents]
prop_types(es) == {es[k].ent_id : k \in DOMAIN es}

\* line 47: [ent.label_ for ent in doc.ents]
quantity_types(es) == {es[k].label : k \in DOMAIN es}

\* lines 50-53: the test on one entry of PROPERTY_TO_UNITS
PropertyMatches(es, property, units) ==
    /\ property \in prop_types(es)
    /\ \/ (units = {} /\ Cardinality(DOMAIN es) > 0)
       \/ \E unit \in units : unit \in quantity_types(es)

\* lines 33-56
prop_matches_quantity(es) ==
    \E property \in DOMAIN PROPERTY_TO_UNITS :
        PropertyMatches(es, property, PROPERTY_TO_UNITS[property])

\* lines 59-70
filter_doc(es) == prop_matches_quantity(es)

\* the entities of the docs handed to the filter
FilterKinds ==
    {[label |-> "PROP", ent_id |-> "density"],
     [label |-> "PROP", ent_id |-> "toxicity"],
     [label |-> "PROP", ent_id |-> "viscosity"],
     [label |-> "CHEM", ent_id |-> ""],
     [label |-> "DENSITY", ent_id |-> ""],
     [label |-> "TEMPERATURE", ent_id |-> ""]}

----------------------------------------------------------------------------
(* Specification of the doc filter *)

InitFilter ==
    /\ pc = "start"
    /\ \E f \in [Tokens -> FilterKinds \cup {NoEnt}] : ents = DocEnts(f)
    /\ keep = FALSE
    /\ IdleInst
    /\ IdleTuples
    /\ IdleTensor
    /\ IdleLink
    /\ IdleQty
    /\ IdlePapers
    /\ IdlePipe
    /\ IdlePar
    /\ IdleCrawl
    /\ IdleRender

\* filter_doc(doc)
FilterDoc ==
    /\ pc = "start"
    /\ keep' = filter_doc(ents)
    /\ pc' = "done"
    /\ UNCHANGED ents
    /\ UNCHANGED varsInst
    /\ UNCHANGED varsTuples
    /\ UNCHANGED varsTensor
    /\ UNCHANGED varsLink
    /\ UNCHANGED varsQty
    /\ UNCHANGED varsPapers
    /\ UNCHANGED varsPipe
    /\ UNCHANGED varsPar
    /\ UNCHANGED varsCrawl
    /\ UNCHANGED varsRender

NextFilter == FilterDoc

SpecFilter == InitFilter /\ [][NextFilter]_vars

\* an entity of the quantities stage: its label is a unit label
IsQuantity(e) == e.label \notin {"CHEM", "PROP", "FORMULA"}

\* C25: a kept doc has an entity whose sub-type id is a registered property
\* and a quantity entity whose label is one of the property's units, any
\* quantity entity if the property is registered with no units; a doc with
\* property entities only is not kept.
C25_KeptOnlyWithQuantity ==
    (pc = "done" /\ keep) =>
        \E p, q \in DOMAIN ents :
            /\ ents[p].ent_id \in DOMAIN PROPERTY_TO_UNITS
            /\ IsQuantity(ents[q])
            /\ \/ PROPERTY_TO_UNITS[ents[p].ent_id] = {}
               \/ ents[q].label \in PROPERTY_TO_UNITS[ents[p].ent_id]

\* what holds of a kept doc: it has an entity of a registered property, and
\* a quantity entity with one of its units unless the property has no units
C25_UnitsRespected ==
    (pc = "done" /\ keep) =>
        \E p \in DOMAIN ents :
            /\ ents[p].ent_id \in DOMAIN PROPERTY_TO_UNITS
            /\ \/ PROPERTY_TO_UNITS[ents[p].ent_id] = {}
               \/ \E q \in DOMAIN ents :
                     /\ IsQuantity(ents[q])
                     /\ ents[q].label \in PROPERTY_TO_UNITS[ents[p].ent_id]

----------------------------------------------------------------------------
(* Parallel calls of LINKER.link: src/cprex/pubchem/linker.py, lines 39-59 and 135 *)

\* the two parallel calls
Callers == {1, 2}

\* a call: where it is, its argument, its locals props and synonyms, the
\* value it returns and the exception it ends with
CallState(at, compound, props, synonyms, ret, exc) ==
    [pc |-> at, compound |-> compound, props |-> props, synonyms |-> synonyms,
     ret |-> ret, exc |-> exc]

\* lines 39-40 and 42: where link goes after looking the name up in _synonyms
AfterCheckMutant(syns, compound) ==
    "query"

AfterCheck(syns, compound) ==
    IF CacheHit(syns, compound) THEN "hit" ELSE "query"

\* the variables of the linker the parallel calls leave alone
varsBatch == <<batch, min_occurences, occurences, pos, properties, ent_props,
               looked, returned, ncalls, not_found>>

----------------------------------------------------------------------------
(* Specification of the parallel calls *)

InitPar ==
    /\ pc = "parallel"
    /\ ents = <<>>
    /\ calls = [c \in Callers |-> CallState("idle", <<>>, NoProps, NoProps, NoProps, "")]
    /\ use_lock \in BOOLEAN
    /\ lock = 0
    /\ IdleInst
    /\ IdleTuples
    /\ IdleTensor
    /\ IdleLink
    /\ IdleQty
    /\ IdlePapers
    /\ IdlePipe
    /\ IdleFilter
    /\ IdleCrawl
    /\ IdleRender

\* the frame of a step of call c
ParStep(c, st) ==
    /\ calls' = [calls EXCEPT ![c] = st]
    /\ UNCHANGED <<pc, ents, use_lock>>
    /\ UNCHANGED varsBatch
    /\ UNCHANGED varsCrawl
    /\ UNCHANGED varsRender

\* LINKER.link(compound) is called
Enter(c) ==
    /\ calls[c].pc = "idle"
    /\ \E compound \in Names :
          ParStep(c, [calls[c] EXCEPT !.compound = compound,
                                      !.pc = IF use_lock THEN "acquire" ELSE "check"])
    /\ UNCHANGED <<_synonyms, _properties, sent, lock>>
    /\ UNCHANGED varsInst
    /\ UNCHANGED varsTuples
    /\ UNCHANGED varsTensor
    /\ UNCHANGED varsQty
    /\ UNCHANGED varsPapers
    /\ UNCHANGED varsPipe
    /\ UNCHANGED varsFilter
    /\ UNCHANGED varsCrawl
    /\ UNCHANGED varsRender

\* the lock around the body of link is taken
Acquire(c) ==
    /\ calls[c].pc = "acquire"
    /\ lock = 0
    /\ lock' = c
    /\ ParStep(c, [calls[c] EXCEPT !.pc = "check"])
    /\ UNCHANGED <<_synonyms, _properties, sent>>
    /\ UNCHANGED varsInst
    /\ UNCHANGED varsTuples
    /\ UNCHANGED varsTensor
    /\ UNCHANGED varsQty
    /\ UNCHANGED varsPapers
    /\ UNCHANGED varsPipe
    /\ UNCHANGED varsFilter
    /\ UNCHANGED varsCrawl
    /\ UNCHANGED varsRender

\* line 39: compound.lower() in self._synonyms
Check(c) ==
    /\ calls[c].pc = "check"
    /\ ParStep(c, [calls[c] EXCEPT !.pc = AfterCheck(_synonyms, calls[c].compound)])
    /\ UNCHANGED <<_synonyms, _properties, sent, lock>>
    /\ UNCHANGED varsInst
    /\ UNCHANGED varsTuples
    /\ UNCHANGED varsTensor
    /\ UNCHANGED varsQty
    /\ UNCHANGED varsPapers
    /\ UNCHANGED varsPipe
    /\ UNCHANGED varsFilter
    /\ UNCHANGED varsCrawl
    /\ UNCHANGED varsRender

\* line 40: return self._properties[self._synonyms[compound.lower()]]
Hit(c) ==
    /\ calls[c].pc = "hit"
    /\ LET key == Lower(calls[c].compound)
       IN  ParStep(c, IF key \in DOMAIN _synonyms /\ _synonyms[key] \in DOMAIN _properties
                      THEN [calls[c] EXCEPT !.ret = _properties[_synonyms[key]],
                                            !.pc = "return"]
                      ELSE [calls[c] EXCEPT !.exc = "KeyError", !.pc = "return"])
    /\ UNCHANGED <<_synonyms, _properties, sent, lock>>
    /\ UNCHANGED varsInst
    /\ UNCHANGED varsTuples
    /\ UNCHANGED varsTensor
    /\ UNCHANGED varsQty
    /\ UNCHANGED varsPapers
    /\ UNCHANGED varsPipe
    /\ UNCHANGED varsFilter
    /\ UNCHANGED varsCrawl
    /\ UNCHANGED varsRender

\* lines 43-46 and 54-59: the property query is sent and answered
QueryProperties(c) ==
    /\ calls[c].pc = "query"
    /\ \E a1 \in PropertyAnswers(calls[c].compound) :
          LET found == _rest_api_search(calls[c].compound, a1)
          IN  /\ sent' = Append(sent, [name |-> calls[c].compound,
                                       kind |-> "property", answer |-> a1])
              /\ ParStep(c, IF Caught(found.exc) THEN [calls[c] EXCEPT !.pc = "return"]
                            ELSE IF found.exc # ""
                            THEN [calls[c] EXCEPT !.exc = found.exc, !.pc = "return"]
                            ELSE IF found.value.none
                            THEN [calls[c] EXCEPT !.pc = "return"]
                            ELSE [calls[c] EXCEPT !.props = found.value,
                                                  !.pc = "write properties"])
    /\ UNCHANGED <<_synonyms, _properties, lock>>
    /\ UNCHANGED varsInst
    /\ UNCHANGED varsTuples
    /\ UNCHANGED varsTensor
    /\ UNCHANGED varsQty
    /\ UNCHANGED varsPapers
    /\ UNCHANGED varsPipe
    /\ UNCHANGED varsFilter
    /\ UNCHANGED varsCrawl
    /\ UNCHANGED varsRender

\* lines 47-48: self._properties[cid] = props
WriteProperties(c) ==
    /\ calls[c].pc = "write properties"
    /\ _properties' = SetItem(_properties, calls[c].props.CID, calls[c].props)
    /\ ParStep(c, [calls[c] EXCEPT !.pc = "query synonyms"])
    /\ UNCHANGED <<_synonyms, sent, lock>>
    /\ UNCHANGED varsInst
    /\ UNCHANGED varsTuples
    /\ UNCHANGED varsTensor
    /\ UNCHANGED varsQty
    /\ UNCHANGED varsPapers
    /\ UNCHANGED varsPipe
    /\ UNCHANGED varsFilter
    /\ UNCHANGED varsCrawl
    /\ UNCHANGED varsRender

\* lines 49 and 54-59: the synonyms query is sent and answered
QuerySynonyms(c) ==
    /\ calls[c].pc = "query synonyms"
    /\ \E a2 \in SynonymAnswers :
          LET synonyms == _rest_api_search(calls[c].compound, a2)
          IN  /\ sent' = Append(sent, [name |-> calls[c].compound,
                                       kind |-> "synonyms", answer |-> a2])
              /\ ParStep(c, IF Caught(synonyms.exc) THEN [calls[c] EXCEPT !.pc = "return"]
                            ELSE IF synonyms.exc # ""
                            THEN [calls[c] EXCEPT !.exc = synonyms.exc, !.pc = "return"]
                            ELSE [calls[c] EXCEPT !.synonyms = synonyms.value,
                                                  !.pc = "write synonyms"])
    /\ UNCHANGED <<_synonyms, _properties, lock>>
    /\ UNCHANGED varsInst
    /\ UNCHANGED varsTuples
    /\ UNCHANGED varsTensor
    /\ UNCHANGED varsQty
    /\ UNCHANGED varsPapers
    /\ UNCHANGED varsPipe
    /\ UNCHANGED varsFilter
    /\ UNCHANGED varsCrawl
    /\ UNCHANGED varsRender

\* lines 50-53: the synonyms are cached and props is returned
WriteSynonyms(c) ==
    /\ calls[c].pc = "write synonyms"
    /\ _synonyms' = IF calls[c].synonyms.none THEN _synonyms
                    ELSE CacheSynonyms(_synonyms, SynonymList(calls[c].synonyms.CID),
                                       calls[c].props.CID)
    /\ ParStep(c, [calls[c] EXCEPT !.ret = calls[c].props, !.pc = "return"])
    /\ UNCHANGED <<_properties, sent, lock>>
    /\ UNCHANGED varsInst
    /\ UNCHANGED varsTuples
    /\ UNCHANGED varsTensor
    /\ UNCHANGED varsQty
    /\ UNCHANGED varsPapers
    /\ UNCHANGED varsPipe
    /\ UNCHANGED varsFilter
    /\ UNCHANGED varsCrawl
    /\ UNCHANGED varsRender

\* link returns or raises; the lock, if any, is given back
Leave(c) ==
    /\ calls[c].pc = "return"
    /\ lock' = IF use_lock THEN 0 ELSE lock
    /\ ParStep(c, [calls[c] EXCEPT !.pc = "done"])
    /\ UNCHANGED <<_synonyms, _properties, sent>>
    /\ UNCHANGED varsInst
    /\ UNCHANGED varsTuples
    /\ UNCHANGED varsTensor
    /\ UNCHANGED varsQty
    /\ UNCHANGED varsPapers
    /\ UNCHANGED varsPipe
    /\ UNCHANGED varsFilter
    /\ UNCHANGED varsCrawl
    /\ UNCHANGED varsRender

NextPar ==
    \E c \in Callers :
        \/ Enter(c)
        \/ Acquire(c)
        \/ Check(c)
        \/ Hit(c)
        \/ QueryProperties(c)
        \/ WriteProperties(c)
        \/ QuerySynonyms(c)
        \/ WriteSynonyms(c)
        \/ Leave(c)

SpecPar == InitPar /\ [][NextPar]_vars

\* the property queries sent for a name, letter case ignored
PropertyQueries(name) ==
    {i \in DOMAIN sent : sent[i].kind = "property" /\ Lower(sent[i].name) = Lower(name)}

\* call c sends its property query in this step
SendsPropertyQuery(c) == calls[c].pc = "query" /\ calls'[c].pc # "query"

\* C26 (as stated, the part on the lock): under the lock at most one property
\* query is sent for a name.  The other part, that without the lock two calls
\* for the same name can both miss the cache and both send the query, is a
\* possibility: C26_Witness is a state where it happened.
C26_LockOneQueryPerName ==
    use_lock => \A name \in Names : Cardinality(PropertyQueries(name)) <= 1

\* C26 (amended): under the lock no call sends a property query for a name
\* that is in the synonym cache when the query is sent; a query for a cached
\* name is sent only by calls that run without the lock.
C26_LockNoQueryForCachedName ==
    [][\A c \in Callers :
          (SendsPropertyQuery(c) /\ CacheHit(_synonyms, calls[c].compound)) => ~use_lock]_vars

\* without the lock both calls, for the same name, missed the cache and both
\* sent the property query, although the first one cached the name
C26_Witness ==
    /\ ~use_lock
    /\ \A c \in Callers : calls[c].pc = "done" /\ calls[c].compound = Name_Ab
    /\ Cardinality(PropertyQueries(Name_Ab)) = 2
    /\ \A i \in PropertyQueries(Name_Ab) : sent[i].answer = "Properties"
    /\ sent[1].kind = "property"
    /\ sent[2].kind = "synonyms"
    /\ CacheHit(_synonyms, Name_Ab)

\* under the lock the second call for the name found it in the cache: one
\* property query was sent for the two calls
C26_LockedHit ==
    /\ use_lock
    /\ \A c \in Callers : calls[c].pc = "done" /\ Lower(calls[c].compound) = Lower(Name_Ab)
    /\ \A c \in Callers : calls[c].ret = Props(1)
    /\ Cardinality(PropertyQueries(Name_Ab)) = 1

----------------------------------------------------------------------------
(* Paging crawler: ChemrxivAPI.query_generator of src/cprex/crawler/chemrxiv.py *)

\* number of items the server holds
MaxItems == 3
\* largest page_size of a ChemrxivAPI
MaxPageSize == 2

\* the two calls of query_generator that are consumed in turn
Generators == {1, 2}

\* line 37: params.update({"limit": self.page_size, "skip": page * self.page_size})
UpdateParamsMutant(dict, page_size, page) ==
    SetItem(SetItem(dict, "limit", page_size), "skip",
            IF "skip" \in DOMAIN dict THEN dict["skip"] + page_size ELSE 0)

UpdateParams(dict, page_size, page) ==
    SetItem(SetItem(dict, "limit", page_size), "skip", page * page_size)

\* r["itemHits"] of the server's answer: the items from skip on, at most limit
\* of them; the items are numbered from 1
ItemHits(n, request) ==
    [k \in 1 .. (IF request["skip"] >= n THEN 0
                 ELSE IF n - request["skip"] < request["limit"]
                      THEN n - request["skip"] ELSE request["limit"])
        |-> request["skip"] + k]

\* a generator before its first next()
NewGenerator(page_size) ==
    [pc |-> "created", page_size |-> page_size, page |-> 0, rest |-> <<>>,
     requests |-> <<>>, pages |-> <<>>, yielded |-> <<>>]

----------------------------------------------------------------------------
(* Specification of the paging crawler *)

InitCrawl ==
    /\ pc = "crawl"
    /\ ents = <<>>
    /\ totalCount \in 0 .. MaxItems
    /\ params = <<>>
    /\ gens \in [Generators -> {NewGenerator(s) : s \in 0 .. MaxPageSize}]
    /\ IdleInst
    /\ IdleTuples
    /\ IdleTensor
    /\ IdleLink
    /\ IdleQty
    /\ IdlePapers
    /\ IdlePipe
    /\ IdleFilter
    /\ IdlePar
    /\ IdleRender

\* lines 36-46, next() when no page is being yielded.  The first next()
\* starts the body with page = 0 (line 35); a later one resumes the generator
\* after the yield of the last item of a page, where "page += 1" (line 46) is
\* the first statement to run.  Then the request for the page is sent; it
\* fails (line 29), or the page is empty and the generator returns, or the
\* first item of the page is yielded
Request(g) ==
    /\ gens[g].pc \in {"created", "running"}
    /\ gens[g].rest = <<>>
    /\ LET gen == gens[g]
           page == IF gen.pc = "created" THEN gen.page ELSE gen.page + 1
           request == UpdateParams(params, gen.page_size, page)
           sent_gen == [gen EXCEPT !.page = page, !.requests = Append(@, request)]
       IN  /\ params' = request
           /\ \/ gens' = [gens EXCEPT ![g] = [sent_gen EXCEPT !.pc = "raised"]]
              \/ LET r == ItemHits(totalCount, request)
                     got == [sent_gen EXCEPT !.pages = Append(@, r)]
                 IN  gens' = [gens EXCEPT ![g] =
                                IF Len(r) = 0 THEN [got EXCEPT !.pc = "returned"]
                                ELSE [got EXCEPT !.pc = "running",
                                                 !.yielded = Append(@, Head(r)),
                                                 !.rest = Tail(r)]]
    /\ UNCHANGED <<pc, ents, totalCount>>
    /\ UNCHANGED varsInst
    /\ UNCHANGED varsTuples
    /\ UNCHANGED varsTensor
    /\ UNCHANGED varsLink
    /\ UNCHANGED varsQty
    /\ UNCHANGED varsPapers
    /\ UNCHANGED varsPipe
    /\ UNCHANGED varsFilter
    /\ UNCHANGED varsPar
    /\ UNCHANGED varsRender

\* line 45, next() while a page is being yielded: its next item is yielded
\* and the generator is suspended there again, page as it was
Yield(g) ==
    /\ gens[g].pc = "running"
    /\ gens[g].rest # <<>>
    /\ gens' = [gens EXCEPT ![g] =
                  [@ EXCEPT !.yielded = Append(@, Head(gens[g].rest)),
                            !.rest = Tail(gens[g].rest)]]
    /\ UNCHANGED <<pc, ents, totalCount, params>>
    /\ UNCHANGED varsInst
    /\ UNCHANGED varsTuples
    /\ UNCHANGED varsTensor
    /\ UNCHANGED varsLink
    /\ UNCHANGED varsQty
    /\ UNCHANGED varsPapers
    /\ UNCHANGED varsPipe
    /\ UNCHANGED varsFilter
    /\ UNCHANGED varsPar
    /\ UNCHANGED varsRender

NextCrawl == \E g \in Generators : Request(g) \/ Yield(g)

SpecCrawl == InitCrawl /\ [][NextCrawl]_vars

\* the pages one after the other
RECURSIVE Concat(_)
Concat(ps) == IF ps = <<>> THEN <<>> ELSE Head(ps) \o Concat(Tail(ps))

\* C27: the k-th request of a generator (k = 0, 1, ...) has limit page_size
\* and skip k * page_size, whatever another generator left in the shared
\* default params; the items yielded, with those of the current page still to
\* be yielded, are the items of the pages received, in order; only the last
\* page received can be empty, and after it the generator has returned and
\* sends no request.
C27_PagesInOrder ==
    [][\A g \in Generators :
          LET gen == gens'[g]
          IN  /\ \A k \in DOMAIN gen.requests :
                    /\ gen.requests[k]["limit"] = gen.page_size
                    /\ gen.requests[k]["skip"] = (k - 1) * gen.page_size
              /\ gen.yielded \o gen.rest = Concat(gen.pages)
              /\ \A a, b \in DOMAIN gen.yielded : a # b => gen.yielded[a] # gen.yielded[b]
              /\ \A k \in DOMAIN gen.pages :
                    gen.pages[k] = <<>> => (k = Len(gen.pages) /\ gen.pc = "returned")
              /\ gen.pc = "returned" =>
                    /\ gen.pages[Len(gen.pages)] = <<>>
                    /\ gen.rest = <<>>
              /\ gens[g].pc = "returned" => gen = gens[g]]_vars

\* a generator returned after two pages with items and an empty one; the
\* other generator, with another page size and the same default params, also
\* sent several requests and returned
C27_Witness ==
    \E g, h \in Generators :
        /\ g # h
        /\ gens[g].pc = "returned"
        /\ Len(gens[g].pages) = 3
        /\ gens[g].yielded = <<1, 2, 3>>
        /\ gens[h].page_size # gens[g].page_size
        /\ Len(gens[h].requests) >= 2
        /\ gens[h].pc = "returned"

----------------------------------------------------------------------------
(* Paper runs: parse_papers of src/cprex/corpus/corpus.py, with the crawls  *)
(* that write the metadata file and the pdf download                        *)

\* number of papers the server knows, and of lines of the metadata file
MaxPapers == 2
\* number of runs of parse_papers over the same metadata file
MaxRuns == 2

\* chemrxiv.py line 20: page_size of ChemrxivAPI()
DefaultPageSize == 50

\* a line of the metadata file: the paper (its doi), and whether the line has
\* the keys "pdf" and "processed"
Paper(id, pdf, processed) == [id |-> id, pdf |-> pdf, processed |-> processed]

\* the metadata files: up to MaxPapers lines about different papers
MetadataFiles ==
    {f \in UNION {[1 .. m -> {Paper(i, a, b) : i \in 1 .. MaxPapers, a, b \in BOOLEAN}] :
                     m \in 0 .. MaxPapers} :
        \A j, k \in DOMAIN f : j # k => f[j].id # f[k].id}

\* lines 191-194: del paper["processed"] for every paper
ClearProcessed(ps) == [k \in DOMAIN ps |-> [ps[k] EXCEPT !.processed = FALSE]]

\* some paper of the file has the key "processed"
HasMarks(ps) == \E k \in DOMAIN ps : ps[k].processed

Indices(ps) == [k \in DOMAIN ps |-> k]

\* line 199: "pdf" in p and "processed" not in p
Selectable(ps, k) == ps[k].pdf /\ ~ps[k].processed

\* line 199: [p for p in papers if ...][:limit], as indices in papers; the
\* slice of a negative limit leaves out the last -limit papers of the list
Select(ps, limit) ==
    LET all == SelectSeq(Indices(ps), LAMBDA k : Selectable(ps, k))
        stop == IF limit < 0
                THEN (IF Len(all) + limit > 0 THEN Len(all) + limit ELSE 0)
                ELSE (IF limit < Len(all) THEN limit ELSE Len(all))
    IN  SubSeq(all, 1, stop)

\* what can happen in the body of the try statement for paper i
Envs(i, pdfs, save) ==
    {"ok", "no docs", "parse fails"}
    \cup (IF i \in pdfs THEN {} ELSE {"download fails"})
    \cup (IF save THEN {"save fails"} ELSE {})

\* lines 200-209: the body of the try statement for paper i; exc is the
\* exception it ends with, "" if none
TryBody(i, env, pdfs, out, save) ==
    IF i \notin pdfs /\ env = "download fails"
    THEN [exc |-> "download", pdf_files |-> pdfs, output |-> out]
    ELSE IF env = "parse fails"
    THEN [exc |-> "parse", pdf_files |-> pdfs \cup {i}, output |-> out]
    ELSE LET has_docs == env # "no docs"
             appended == Append(out, [id |-> i, docs |-> has_docs])
         IN  IF save /\ has_docs /\ env = "save fails"
             THEN [exc |-> "save", pdf_files |-> pdfs \cup {i}, output |-> appended]
             ELSE [exc |-> "", pdf_files |-> pdfs \cup {i}, output |-> appended]

\* lines 210-212: "except Exception" takes every failure of the body
ExceptExceptionMutant(exc) == FALSE

ExceptException(exc) == TRUE

\* line 214: paper["processed"] = True
MarkProcessed(ps, k) == [ps EXCEPT ![k].processed = TRUE]

RECURSIVE Requests(_, _, _, _)
\* chemrxiv.py lines 35-46 run to the end by the loop of corpus.py line 152:
\* the requests query_generator sends, from page on, when the server holds n
\* papers; each one is the default params dict after its update
Requests(dict, page_size, n, page) ==
    LET request == UpdateParams(dict, page_size, page)
    IN  IF Len(ItemHits(n, request)) = 0 THEN <<request>>
        ELSE <<request>> \o Requests(request, page_size, n, page + 1)

----------------------------------------------------------------------------
(* Specification of the paper runs *)

\* the metadata file does not exist yet (pc = "no file"), or it holds any
\* lines, marked or not, that earlier crawls and runs left
InitPapers ==
    /\ pc \in {"no file", "idle"}
    /\ ents = <<>>
    /\ metadata_file \in MetadataFiles
    /\ pc = "no file" => metadata_file = <<>>
    /\ pdf_files \in SUBSET (1 .. MaxPapers)
    /\ args = <<>>
    /\ papers = <<>>
    /\ selected = <<>>
    /\ outcomes = <<>>
    /\ output = <<>>
    /\ attempts = [i \in 1 .. MaxPapers |-> 0]
    /\ cleared = {}
    /\ nruns = 0
    /\ IdleInst
    /\ IdleTuples
    /\ IdleTensor
    /\ IdleLink
    /\ IdleQty
    /\ IdlePipe
    /\ IdleFilter
    /\ IdlePar
    /\ IdleCrawl
    /\ IdleRender

\* lines 187-199: the metadata file is read and the papers are selected
ReadMetadata ==
    /\ pc = "idle"
    /\ nruns < MaxRuns
    /\ \E limit \in (-1) .. MaxPapers : \E force, save_parsed_docs \in BOOLEAN :
          /\ args' = [limit |-> limit, force |-> force,
                      save_parsed_docs |-> save_parsed_docs]
          /\ papers' = IF force THEN ClearProcessed(metadata_file) ELSE metadata_file
          /\ selected' = Select(papers', limit)
          /\ cleared' = cleared \cup (IF force /\ HasMarks(metadata_file)
                                      THEN {"force"} ELSE {})
    /\ outcomes' = <<>>
    /\ output' = <<>>
    /\ nruns' = nruns + 1
    /\ pc' = "processing"
    /\ UNCHANGED <<ents, metadata_file, pdf_files, attempts>>
    /\ UNCHANGED varsInst
    /\ UNCHANGED varsTuples
    /\ UNCHANGED varsTensor
    /\ UNCHANGED varsLink
    /\ UNCHANGED varsQty
    /\ UNCHANGED varsPipe
    /\ UNCHANGED varsFilter
    /\ UNCHANGED varsPar
    /\ UNCHANGED varsCrawl
    /\ UNCHANGED varsRender

\* lines 199-214: one paper of the loop
ProcessPaper ==
    /\ pc = "processing"
    /\ Len(outcomes) < Len(selected)
    /\ LET k == selected[Len(outcomes) + 1]
           i == papers[k].id
       IN  \E env \in Envs(i, pdf_files, args.save_parsed_docs) :
              LET r == TryBody(i, env, pdf_files, output, args.save_parsed_docs)
              IN  /\ pdf_files' = r.pdf_files
                  /\ output' = r.output
                  /\ outcomes' = Append(outcomes, r.exc)
                  /\ papers' = MarkProcessed(papers, k)
                  /\ attempts' = [attempts EXCEPT ![i] = @ + 1]
                  /\ pc' = IF r.exc # "" /\ ~ExceptException(r.exc)
                           THEN "raised" ELSE "processing"
    /\ UNCHANGED <<ents, metadata_file, args, selected, cleared, nruns>>
    /\ UNCHANGED varsInst
    /\ UNCHANGED varsTuples
    /\ UNCHANGED varsTensor
    /\ UNCHANGED varsLink
    /\ UNCHANGED varsQty
    /\ UNCHANGED varsPipe
    /\ UNCHANGED varsFilter
    /\ UNCHANGED varsPar
    /\ UNCHANGED varsCrawl
    /\ UNCHANGED varsRender

\* lines 216-221: the metadata file is rewritten and output is returned to
\* the caller; the locals of the call are gone
WriteMetadata ==
    /\ pc = "processing"
    /\ Len(outcomes) = Len(selected)
    /\ metadata_file' = papers
    /\ args' = <<>>
    /\ papers' = <<>>
    /\ selected' = <<>>
    /\ outcomes' = <<>>
    /\ output' = <<>>
    /\ pc' = "idle"
    /\ UNCHANGED <<ents, pdf_files, attempts, cleared, nruns>>
    /\ UNCHANGED varsInst
    /\ UNCHANGED varsTuples
    /\ UNCHANGED varsTensor
    /\ UNCHANGED varsLink
    /\ UNCHANGED varsQty
    /\ UNCHANGED varsPipe
    /\ UNCHANGED varsFilter
    /\ UNCHANGED varsPar
    /\ UNCHANGED varsCrawl
    /\ UNCHANGED varsRender

\* corpus.py lines 137-159, crawl_chemrxiv_papers(dump_file, query):
\* query_generator of ChemrxivAPI() is run to its end with its default
\* params dict, and then the file is opened with "w", whether or not it
\* exists, and gets one line per paper of the server's answer, made by
\* parse_article_metadata, which writes the key "pdf" of a paper with an
\* asset and never the key "processed".  A request that raises ends the call
\* before the file is opened.  (create_corpus, script.py lines 57-62, calls
\* it only when the file does not exist.)
crawl_chemrxiv_papers ==
    /\ pc \in {"no file", "idle"}
    /\ \E server \in MetadataFiles :
          /\ ~HasMarks(server)
          /\ LET reqs == Requests(params, DefaultPageSize, Len(server), 0)
             IN  \/ /\ params' = reqs[Len(reqs)]
                    /\ metadata_file' = server
                    /\ cleared' = cleared \cup (IF HasMarks(metadata_file)
                                                THEN {"crawl"} ELSE {})
                    /\ pc' = "idle"
                 \/ /\ \E failed \in DOMAIN reqs : params' = reqs[failed]
                    /\ UNCHANGED <<metadata_file, cleared, pc>>
    /\ UNCHANGED <<ents, pdf_files, args, papers, selected, outcomes, output,
                   attempts, nruns>>
    /\ UNCHANGED varsInst
    /\ UNCHANGED varsTuples
    /\ UNCHANGED varsTensor
    /\ UNCHANGED varsLink
    /\ UNCHANGED varsQty
    /\ UNCHANGED varsPipe
    /\ UNCHANGED varsFilter
    /\ UNCHANGED varsPar
    /\ UNCHANGED <<totalCount, gens>>
    /\ UNCHANGED varsRender

\* chemrxiv.py lines 81-105, download_paper_metadata(out_file, api, limit):
\* the papers of api.all_preprints() are appended one by one and the loop is
\* left after the limit-th one (limit 0 stands for None and for 0: no limit),
\* so the requests sent are those of the pages up to the page of the last
\* paper appended, or all of them up to the empty page; then out_file is
\* opened with "w", whether or not it exists, and gets one line per paper
\* appended, none with the key "processed".  A request that raises ends the
\* call before the file is opened.
download_paper_metadata ==
    /\ pc \in {"no file", "idle"}
    /\ \E page_size \in (1 .. MaxPageSize) \cup {DefaultPageSize} :
       \E limit \in 0 .. MaxPapers :
       \E server \in MetadataFiles :
          /\ ~HasMarks(server)
          /\ LET stopped == limit > 0 /\ limit <= Len(server)
                 count == IF stopped THEN limit ELSE Len(server)
                 all == Requests(params, page_size, Len(server), 0)
                 reqs == IF stopped
                         THEN SubSeq(all, 1, ((limit - 1) \div page_size) + 1)
                         ELSE all
             IN  \/ /\ params' = reqs[Len(reqs)]
                    /\ metadata_file' = SubSeq(server, 1, count)
                    /\ cleared' = cleared \cup (IF HasMarks(metadata_file)
                                                THEN {"crawl"} ELSE {})
                    /\ pc' = "idle"
                 \/ /\ \E failed \in DOMAIN reqs : params' = reqs[failed]
                    /\ UNCHANGED <<metadata_file, cleared, pc>>
    /\ UNCHANGED <<ents, pdf_files, args, papers, selected, outcomes, output,
                   attempts, nruns>>
    /\ UNCHANGED varsInst
    /\ UNCHANGED varsTuples
    /\ UNCHANGED varsTensor
    /\ UNCHANGED varsLink
    /\ UNCHANGED varsQty
    /\ UNCHANGED varsPipe
    /\ UNCHANGED varsFilter
    /\ UNCHANGED varsPar
    /\ UNCHANGED <<totalCount, gens>>
    /\ UNCHANGED varsRender

\* chemrxiv.py lines 116-131, download_pdfs_from_dump(dump_file, save_dir):
\* the pdf of every line with a url and no file yet is downloaded, in file
\* order; a request that raises ends the call after the first n lines
download_pdfs_from_dump ==
    /\ pc = "idle"
    /\ \E n \in 0 .. Len(metadata_file) :
          pdf_files' = pdf_files
                       \cup {metadata_file[k].id : k \in {j \in 1 .. n : metadata_file[j].pdf}}
    /\ UNCHANGED <<pc, ents, metadata_file, args, papers, selected, outcomes,
                   output, attempts, cleared, nruns>>
    /\ UNCHANGED varsInst
    /\ UNCHANGED varsTuples
    /\ UNCHANGED varsTensor
    /\ UNCHANGED varsLink
    /\ UNCHANGED varsQty
    /\ UNCHANGED varsPipe
    /\ UNCHANGED varsFilter
    /\ UNCHANGED varsPar
    /\ UNCHANGED varsCrawl
    /\ UNCHANGED varsRender

NextPapers ==
    \/ ReadMetadata
    \/ ProcessPaper
    \/ WriteMetadata
    \/ crawl_chemrxiv_papers
    \/ download_paper_metadata
    \/ download_pdfs_from_dump

SpecPapers == InitPapers /\ [][NextPapers]_vars

\* the step is one paper of the loop
PaperStep == pc = "processing" /\ Len(outcomes') = Len(outcomes) + 1

\* the line of the paper of the step
StepPaper == selected[Len(outcomes) + 1]

\* the step ends the run
WriteStep == pc = "processing" /\ pc' = "idle"

\* the step starts a run
ReadStep == pc = "idle" /\ pc' = "processing"

\* C23: when the download or the parsing of a paper fails, the run goes on
\* with the papers selected after it and the paper adds nothing to output;
\* the run ends only when every selected paper was attempted, and every one
\* of them, failed or not, is marked processed in the rewritten file.
C23_FailureIsolated ==
    [][/\ (PaperStep /\ outcomes'[Len(outcomes')] \in {"download", "parse"}) =>
             /\ pc' = "processing"
             /\ output' = output
             /\ selected' = selected
       /\ WriteStep =>
             /\ Len(outcomes) = Len(selected)
             /\ Len(metadata_file') = Len(papers)
             /\ \A k \in DOMAIN selected :
                   /\ attempts[papers[selected[k]].id] >= 1
                   /\ metadata_file'[selected[k]].id = papers[selected[k]].id
                   /\ metadata_file'[selected[k]].processed
                   /\ outcomes[k] \in {"download", "parse"} =>
                         \A o \in DOMAIN output :
                            output[o].id # papers[selected[k]].id]_vars

\* a run has attempted the two papers it selected: the first failed and is
\* not in the output, the second was parsed and is, and both are marked
\* processed in the list the file is rewritten from
C23_Witness ==
    /\ pc = "processing"
    /\ Len(selected) = 2
    /\ Len(outcomes) = 2
    /\ outcomes[1] \in {"download", "parse"}
    /\ outcomes[2] = ""
    /\ Len(output) = 1
    /\ output[1].id = papers[selected[2]].id
    /\ \A k \in DOMAIN selected : papers[selected[k]].processed

\* the papers a run starts from are those of the file, without their
\* processed marks when the run has force
C29_PapersOfFile ==
    /\ DOMAIN papers' = DOMAIN metadata_file
    /\ \A k \in DOMAIN papers' :
          /\ papers'[k].id = metadata_file[k].id
          /\ papers'[k].pdf = metadata_file[k].pdf
          /\ papers'[k].processed = (~args'.force /\ metadata_file[k].processed)

\* the lines of the papers a run starts from that have a pdf url and no
\* processed mark
C29_Eligible == {k \in DOMAIN papers' : papers'[k].pdf /\ ~papers'[k].processed}

\* the selection of a run is made of eligible papers, in file order, and an
\* eligible paper left out comes after every selected one
C29_FirstEligible ==
    /\ Range(selected') \subseteq C29_Eligible
    /\ \A a, b \in DOMAIN selected' : a < b => selected'[a] < selected'[b]
    /\ \A k \in C29_Eligible \ Range(selected') :
          \A a \in DOMAIN selected' : selected'[a] < k

\* a paper attempted without force has a pdf url and no processed mark in the
\* file, and a run without force writes the papers it did not select back as
\* they were
C29_MarkedNeverAttempted ==
    /\ (PaperStep /\ ~args.force) =>
          /\ metadata_file[StepPaper].pdf
          /\ ~metadata_file[StepPaper].processed
          /\ metadata_file[StepPaper].id = papers[StepPaper].id
    /\ (WriteStep /\ ~args.force) =>
          /\ DOMAIN metadata_file' = DOMAIN metadata_file
          /\ \A k \in DOMAIN metadata_file :
                k \notin Range(selected) => metadata_file'[k] = metadata_file[k]
    /\ cleared' = {} => \A i \in DOMAIN attempts' : attempts'[i] <= 1

\* C29: in a run without force only papers with a pdf url and no processed
\* mark in the file are attempted, the selection is the first limit such
\* papers in file order, at most limit of them, and the papers outside it
\* are written back as they were; as long as no processed mark was taken out
\* of the file no paper is attempted twice, over all runs; a run with force
\* starts from papers with no processed mark.  Fails for a negative limit:
\* the slice of line 199 then keeps all the eligible papers but the last
\* -limit ones, which is more than limit.
C29_AtMostOnce ==
    [][/\ C29_MarkedNeverAttempted
       /\ ReadStep =>
             /\ C29_PapersOfFile
             /\ C29_FirstEligible
             /\ Len(selected') <= args'.limit
             /\ C29_Eligible \ Range(selected') # {} => Len(selected') = args'.limit]_vars

\* what holds for every limit: the statement of C29 for the limits from 0 on,
\* and for a negative limit the selection is the eligible papers, in file
\* order, without the last -limit ones
C29_AtMostOnceFromZero ==
    [][/\ C29_MarkedNeverAttempted
       /\ ReadStep =>
             /\ C29_PapersOfFile
             /\ C29_FirstEligible
             /\ args'.limit >= 0 =>
                   /\ Len(selected') <= args'.limit
                   /\ C29_Eligible \ Range(selected') # {} =>
                         Len(selected') = args'.limit
             /\ args'.limit < 0 =>
                   \/ Len(selected') = Cardinality(C29_Eligible) + args'.limit
                   \/ /\ selected' = <<>>
                      /\ Cardinality(C29_Eligible) + args'.limit <= 0]_vars

\* a run with limit -1 over a file with two eligible papers has attempted
\* the first of them: one paper, more than limit
C29_NegativeLimit ==
    /\ pc = "processing"
    /\ args.limit = -1
    /\ ~args.force
    /\ selected = <<1>>
    /\ Len(outcomes) = 1
    /\ Len(papers) = 2
    /\ papers[2].pdf /\ ~papers[2].processed

\* the second of two runs without force has attempted its papers: the first
\* run took the paper of the first line only, the second had room for two
\* and took the paper of the second line only
C29_Witness ==
    /\ pc = "processing"
    /\ nruns = 2
    /\ cleared = {}
    /\ args.limit = 2
    /\ ~args.force
    /\ selected = <<2>>
    /\ Len(outcomes) = 1
    /\ attempts[papers[1].id] = 1
    /\ attempts[papers[2].id] = 1

----------------------------------------------------------------------------
(* Relation renderer: src/cprex/displacy/render.py *)

\* number of entities of the rendered document
MaxEnts == 3
\* number of relations of the rendered document
MaxRels == 2

\* lines 55-64
COLOR_SCALE ==
    <<"#7fc97f", "#beaed4", "#fdc086", "#ffff99", "#386cb0", "#f0027f", "#bf5b17",
      "#666666">>

SetMin(S) == CHOOSE x \in S : \A y \in S : x <= y

\* lines 502-506: get_render_slot_and_color(render_slots_taken)
get_render_slot_and_color_mutant(render_slots_taken) ==
    LET render_slot == Cardinality(render_slots_taken)
    IN  [render_slot |-> render_slot,
         color |-> COLOR_SCALE[((render_slot - 1) % Len(COLOR_SCALE)) + 1]]

get_render_slot_and_color(render_slots_taken) ==
    LET free_slots == (1 .. Cardinality(render_slots_taken)) \ render_slots_taken
        render_slot == IF free_slots # {} THEN SetMin(free_slots)
                       ELSE Cardinality(render_slots_taken) + 1
    IN  [render_slot |-> render_slot,
         color |-> COLOR_SCALE[((render_slot - 1) % Len(COLOR_SCALE)) + 1]]

\* Relation(head, tail, label, id); head and tail are entity ids, 0 is the id
\* of no entity of the document
Relation(head, tail, id) == [head |-> head, tail |-> tail, id |-> id]

\* rel.id in open_relations
IsOpen(open, id) == \E k \in DOMAIN open : open[k].id = id

\* open_relations[rel.id]
OpenEntry(open, id) == open[CHOOSE k \in DOMAIN open : open[k].id = id]

\* del open_relations[rel.id]
DelOpen(open, id) == SelectSeq(open, LAMBDA o : o.id # id)

\* lines 391-401: the entry of a relation that has the entity as an endpoint
FragmentRelation(r, ent, render_slot, color, rtl, what) ==
    [id |-> r.id, render_slot |-> render_slot, color |-> color,
     is_head |-> r.head = ent, is_tail |-> r.tail = ent, rtl |-> rtl, what |-> what]

\* line 404: the entry of an open relation that passes through the fragment
PassingRelation(o) ==
    [id |-> o.id, render_slot |-> o.render_slot, color |-> o.color,
     is_head |-> FALSE, is_tail |-> FALSE, rtl |-> FALSE, what |-> "passing"]

\* lines 374-404: the body of "for rel in rels" for the relation r at the
\* entity ent
RelBody(st, r, ent) ==
    IF r.head = ent \/ r.tail = ent
    THEN IF IsOpen(st.open, r.id)
         THEN LET o == OpenEntry(st.open, r.id)
              IN  [open |-> DelOpen(st.open, r.id),
                   taken |-> st.taken,
                   frag |-> Append(st.frag,
                                   FragmentRelation(r, ent, o.render_slot, o.color,
                                                    r.head = ent, "closed"))]
         ELSE LET s == get_render_slot_and_color(st.taken)
              IN  [open |-> Append(st.open, [id |-> r.id, render_slot |-> s.render_slot,
                                             color |-> s.color]),
                   taken |-> st.taken \cup {s.render_slot},
                   frag |-> Append(st.frag,
                                   FragmentRelation(r, ent, s.render_slot, s.color,
                                                    r.tail = ent, "opened"))]
    ELSE IF IsOpen(st.open, r.id)
    THEN [st EXCEPT !.frag = Append(@, PassingRelation(OpenEntry(st.open, r.id)))]
    ELSE st

RECURSIVE RelLoop(_, _, _, _)
\* lines 373-404: for rel in rels, from position k on
RelLoop(st, rs, k, ent) ==
    IF k > Len(rs) THEN st
    ELSE RelLoop(RelBody(st, rs[k], ent), rs, k + 1, ent)

\* lines 371-405: the relations of the fragment of entity ent
FragmentRelations(open, rs, ent) ==
    RelLoop([open |-> open,
             taken |-> {open[k].render_slot : k \in DOMAIN open},
             frag |-> <<>>],
            rs, 1, ent)

\* head and tail are two entities of the document
ValidPair(q, n) == q[1] \in 1 .. n /\ q[2] \in 1 .. n /\ q[1] # q[2]

\* the relations of the rendered document; relation k has id k.  parse_rels
\* (lines 208-219) makes relations between two entities, one for each label
\* of a pair; at most one relation of a list is of another kind (an endpoint
\* that is no entity, or the same entity twice)
RelLists(n) ==
    {l \in UNION {[1 .. m -> (0 .. n) \X (0 .. n)] : m \in 0 .. MaxRels} :
        Cardinality({k \in DOMAIN l : ~ValidPair(l[k], n)}) <= 1}

----------------------------------------------------------------------------
(* Specification of the relation renderer *)

InitRender ==
    /\ pc = "walk"
    /\ ents = <<>>
    /\ n_ents = MaxEnts
    /\ \E l \in RelLists(MaxEnts) :
          rels = [k \in DOMAIN l |-> Relation(l[k][1], l[k][2], k)]
    /\ e_pos = 1
    /\ open_relations = <<>>
    /\ per_fragment_info = <<>>
    /\ IdleInst
    /\ IdleTuples
    /\ IdleTensor
    /\ IdleLink
    /\ IdleQty
    /\ IdlePapers
    /\ IdlePipe
    /\ IdleFilter
    /\ IdlePar
    /\ IdleCrawl

\* lines 346-408: one entity.  The text between the last entity and this
\* one makes a fragment of its own, with the open relations, only when it
\* has something else than white space (line 348)
Fragment ==
    /\ pc = "walk"
    /\ e_pos <= n_ents
    /\ \E stripped \in BOOLEAN :
          LET st == FragmentRelations(open_relations, rels, e_pos)
              offset_text ==
                 IF stripped
                 THEN <<[text |-> "offset", ent |-> 0,
                         rels |-> [k \in DOMAIN open_relations |->
                                      PassingRelation(open_relations[k])]]>>
                 ELSE <<>>
          IN  /\ open_relations' = st.open
              /\ per_fragment_info' =
                    per_fragment_info \o offset_text
                    \o <<[text |-> "entity", ent |-> e_pos, rels |-> st.frag]>>
    /\ e_pos' = e_pos + 1
    /\ UNCHANGED <<pc, ents, n_ents, rels>>
    /\ UNCHANGED varsInst
    /\ UNCHANGED varsTuples
    /\ UNCHANGED varsTensor
    /\ UNCHANGED varsLink
    /\ UNCHANGED varsQty
    /\ UNCHANGED varsPapers
    /\ UNCHANGED varsPipe
    /\ UNCHANGED varsFilter
    /\ UNCHANGED varsPar
    /\ UNCHANGED varsCrawl

\* lines 410-411: the text after the last entity
LastFragment ==
    /\ pc = "walk"
    /\ e_pos > n_ents
    /\ per_fragment_info' = Append(per_fragment_info,
                                   [text |-> "rest", ent |-> 0, rels |-> <<>>])
    /\ pc' = "returned"
    /\ UNCHANGED <<ents, n_ents, rels, e_pos, open_relations>>
    /\ UNCHANGED varsInst
    /\ UNCHANGED varsTuples
    /\ UNCHANGED varsTensor
    /\ UNCHANGED varsLink
    /\ UNCHANGED varsQty
    /\ UNCHANGED varsPapers
    /\ UNCHANGED varsPipe
    /\ UNCHANGED varsFilter
    /\ UNCHANGED varsPar
    /\ UNCHANGED varsCrawl

NextRender == Fragment \/ LastFragment

SpecRender == InitRender /\ [][NextRender]_vars

\* every relation has two distinct endpoints among the entities
TwoEndpoints ==
    \A k \in DOMAIN rels :
        /\ rels[k].head \in 1 .. n_ents
        /\ rels[k].tail \in 1 .. n_ents
        /\ rels[k].head # rels[k].tail

FirstEndpoint(r) == IF r.head < r.tail THEN r.head ELSE r.tail
SecondEndpoint(r) == IF r.head < r.tail THEN r.tail ELSE r.head

\* the slots of the entries that come before entry j in a fragment, and of
\* the relations that were open when the fragment began
SlotsInUse(f, j, open) ==
    {open[k].render_slot : k \in DOMAIN open}
    \cup {f.rels[i].render_slot : i \in 1 .. (j - 1)}

====
